---- MODULE Spec2Model ----
(***************************************************************************)
(* Model of the rubric pipeline of agent-skill-adapter (backend/src).      *)
(*                                                                         *)
(* Text is a sequence of one-character strings.  Python floats are         *)
(* modelled as exact rationals <<numerator, denominator>> in lowest terms  *)
(* with a positive denominator.  A Python call that can raise is modelled  *)
(* by a record [exc, val]: exc names the exception ("none" if none).       *)
(***************************************************************************)
EXTENDS Integers, Sequences, FiniteSets, TLC

(***************************************************************************)
(* Characters and str methods                                              *)
(***************************************************************************)

UpperChars == <<"A","B","C","D","E","F","G","H","I","J","K","L","M",
                "N","O","P","Q","R","S","T","U","V","W","X","Y","Z">>

LowerChars == <<"a","b","c","d","e","f","g","h","i","j","k","l","m",
                "n","o","p","q","r","s","t","u","v","w","x","y","z">>

DigitChars == <<"0","1","2","3","4","5","6","7","8","9">>

\* str.isspace / regex \s on the characters the model uses
Whitespace == {" ", "\t", "\n"}

\* regex \d
IsDigit(c) == \E i \in 1..Len(DigitChars) : DigitChars[i] = c

DigitValue(c) == (CHOOSE i \in 1..Len(DigitChars) : DigitChars[i] = c) - 1

LowerChar(c) ==
    IF \E i \in 1..Len(UpperChars) : UpperChars[i] = c
    THEN LowerChars[CHOOSE i \in 1..Len(UpperChars) : UpperChars[i] = c]
    ELSE c

\* str.lower()
Lower(s) == [i \in 1..Len(s) |-> LowerChar(s[i])]

\* "needle in hay"
Contains(needle, hay) ==
    \E i \in 0..(Len(hay) - Len(needle)) :
        SubSeq(hay, i + 1, i + Len(needle)) = needle

StartsWith(s, p) == Len(s) >= Len(p) /\ SubSeq(s, 1, Len(p)) = p

EndsWith(s, p) == Len(s) >= Len(p) /\ SubSeq(s, Len(s) - Len(p) + 1, Len(s)) = p

\* str.strip(chars): drop leading and trailing characters of the set
RECURSIVE LStripSet(_, _)
LStripSet(s, cs) ==
    IF s # <<>> /\ Head(s) \in cs THEN LStripSet(Tail(s), cs) ELSE s

RECURSIVE RStripSet(_, _)
RStripSet(s, cs) ==
    IF s # <<>> /\ s[Len(s)] \in cs
    THEN RStripSet(SubSeq(s, 1, Len(s) - 1), cs)
    ELSE s

StripSet(s, cs) == RStripSet(LStripSet(s, cs), cs)

\* str.strip()
Strip(s) == StripSet(s, Whitespace)

\* str.split(): the maximal runs of non-whitespace characters, in order
RECURSIVE SplitFrom(_, _, _)
SplitFrom(s, i, cur) ==
    IF i > Len(s)
    THEN IF cur = <<>> THEN <<>> ELSE <<cur>>
    ELSE IF s[i] \in Whitespace
         THEN IF cur = <<>>
              THEN SplitFrom(s, i + 1, <<>>)
              ELSE <<cur>> \o SplitFrom(s, i + 1, <<>>)
         ELSE SplitFrom(s, i + 1, Append(cur, s[i]))

Split(s) == SplitFrom(s, 1, <<>>)

\* int(digits) for a run of decimal digits
RECURSIVE IntOf(_)
IntOf(ds) ==
    IF ds = <<>> THEN 0
    ELSE 10 * IntOf(SubSeq(ds, 1, Len(ds) - 1)) + DigitValue(ds[Len(ds)])

\* str(n) for n >= 0
RECURSIVE Decimal(_)
Decimal(n) ==
    IF n < 10 THEN <<DigitChars[n + 1]>>
    ELSE Decimal(n \div 10) \o <<DigitChars[(n % 10) + 1]>>

(***************************************************************************)
(* Rationals standing for Python floats                                    *)
(***************************************************************************)

Abs(n) == IF n < 0 THEN -n ELSE n

RECURSIVE Gcd(_, _)
Gcd(a, b) == IF b = 0 THEN a ELSE Gcd(b, a % b)

Rat(n, d) ==
    LET g == Gcd(Abs(n), Abs(d))
        s == IF d < 0 THEN -1 ELSE 1
    IN  <<(s * n) \div g, (s * d) \div g>>

RatAdd(p, q) == Rat(p[1] * q[2] + q[1] * p[2], p[2] * q[2])

RatMul(p, q) == Rat(p[1] * q[1], p[2] * q[2])

RatLE(p, q) == p[1] * q[2] <= q[1] * p[2]

RatLT(p, q) == p[1] * q[2] < q[1] * p[2]

RatMin(p, q) == IF RatLE(p, q) THEN p ELSE q

Zero == Rat(0, 1)

One == Rat(1, 1)

\* an optional value: None is the empty sequence, the value v is <<v>>
None == <<>>

\* the outcome of a Python expression: a value, or an exception
Ok(v) == [exc |-> "none", val |-> v]

Raise(e) == [exc |-> e, val |-> Zero]

\* int / int
TrueDiv(n, d) == IF d = 0 THEN Raise("ZeroDivisionError") ELSE Ok(Rat(n, d))

\* float / float
RatDiv(p, q) ==
    IF q[1] = 0 THEN Raise("ZeroDivisionError")
    ELSE Ok(Rat(p[1] * q[2], p[2] * q[1]))

Max(a, b) == IF a >= b THEN a ELSE b

Min(a, b) == IF a <= b THEN a ELSE b

\* the slice s[:n]
Take(s, n) == SubSeq(s, 1, Min(n, Len(s)))

(***************************************************************************)
(* services/evaluator.py                                                   *)
(***************************************************************************)

MustIncludeLit == <<"m","u","s","t"," ","i","n","c","l","u","d","e">>

ShouldIncludeLit == <<"s","h","o","u","l","d"," ","i","n","c","l","u","d","e">>

FormatLit == <<"f","o","r","m","a","t">>

MarkdownLit == <<"m","a","r","k","d","o","w","n">>

JsonLit == <<"j","s","o","n">>

ListLit == <<"l","i","s","t">>

BulletLit == <<"b","u","l","l","e","t">>

AtLeastLit == <<"a","t"," ","l","e","a","s","t">>

WordsLit == <<"w","o","r","d","s">>

\* the backquote character, which a TLA+ string cannot hold
Backtick == "backquote"

FenceLit == <<Backtick, Backtick, Backtick>>

StopWords == {<<"s","h","o","u","l","d">>,
              <<"i","n","c","l","u","d","e">>,
              <<"e","n","s","u","r","e">>,
              <<"p","r","o","v","i","d","e">>}

\* the characters of w.strip(".,!?;:")
EdgePunctuation == {".", ",", "!", "?", ";", ":"}

\* len(w) > 5
MinKeywordLen == 5

\* keywords[:5]
MaxKeywords == 5

\* #{1,6}
MaxHeaderLevel == 6

DigitSet == {DigitChars[i] : i \in 1..Len(DigitChars)}

\* the last index of the maximal run of characters of cs that starts at i
\* (i - 1 when s[i] is not in cs)
RECURSIVE RunEnd(_, _, _)
RunEnd(s, i, cs) ==
    IF i <= Len(s) /\ s[i] \in cs THEN RunEnd(s, i + 1, cs) ELSE i - 1

\* where ^ matches under re.MULTILINE
AtLineStart(s, i) == i = 1 \/ s[i - 1] = "\n"

\* the index of the first double quote at or after i, 0 if there is none
RECURSIVE NextQuote(_, _)
NextQuote(s, i) ==
    IF i > Len(s) THEN 0
    ELSE IF s[i] = "\"" THEN i
    ELSE NextQuote(s, i + 1)

\* re.findall(r"\"([^\"]+)\"", text) scanning from index i
RECURSIVE QuotedFrom(_, _)
QuotedFrom(text, i) ==
    IF i > Len(text) THEN <<>>
    ELSE IF text[i] # "\"" THEN QuotedFrom(text, i + 1)
    ELSE LET j == NextQuote(text, i + 1)
         IN  IF j = 0 THEN <<>>
             ELSE IF j = i + 1 THEN QuotedFrom(text, i + 1)
             ELSE <<SubSeq(text, i + 1, j - 1)>> \o QuotedFrom(text, j + 1)

FindAllQuoted(text) == QuotedFrom(text, 1)

\* the filter of the list comprehension of _extract_keywords
IsKeywordWord(w) == Len(w) > MinKeywordLen /\ ~(Lower(w) \in StopWords)

\* _extract_keywords with the cap of 5 also applied to quoted keywords
ExtractKeywordsCapQuoted(text) ==
    LET quoted == FindAllQuoted(text)
        words == Split(text)
        kept == SelectSeq(words, IsKeywordWord)
        keywords == [i \in 1..Len(kept) |->
                        StripSet(kept[i], EdgePunctuation)]
    IN  Take(IF quoted # <<>> THEN quoted ELSE keywords, MaxKeywords)

\* _extract_keywords(text)
ExtractKeywords(text) ==
    LET quoted == FindAllQuoted(text)
    IN  IF quoted # <<>> THEN quoted
        ELSE LET words == Split(text)
                 kept == SelectSeq(words, IsKeywordWord)
                 keywords == [i \in 1..Len(kept) |->
                                 StripSet(kept[i], EdgePunctuation)]
             IN  Take(keywords, MaxKeywords)

\* r"^#{1,6}\s" under re.MULTILINE
HeaderSearch(text) ==
    \E i \in 1..Len(text) :
        /\ AtLineStart(text, i)
        /\ LET e == RunEnd(text, i, {"#"})
           IN  /\ e - i + 1 >= 1
               /\ e - i + 1 <= MaxHeaderLevel
               /\ e + 1 <= Len(text)
               /\ text[e + 1] \in Whitespace

NoNewline(text, a, b) == \A k \in a..b : text[k] # "\n"

\* r"\*\*.*\*\*"
BoldSearch(text) ==
    \E i \in 1..Len(text), j \in 1..Len(text) :
        /\ j >= i + 2
        /\ j + 1 <= Len(text)
        /\ text[i] = "*" /\ text[i + 1] = "*"
        /\ text[j] = "*" /\ text[j + 1] = "*"
        /\ NoNewline(text, i + 2, j - 1)

\* r"\*.*\*"
ItalicSearch(text) ==
    \E i \in 1..Len(text), j \in 1..Len(text) :
        /\ j >= i + 1
        /\ text[i] = "*"
        /\ text[j] = "*"
        /\ NoNewline(text, i + 1, j - 1)

\* r"^\s*[-*]\s" under re.MULTILINE
ListSearch(text) ==
    \E i \in 1..Len(text) :
        /\ AtLineStart(text, i)
        /\ LET k == RunEnd(text, i, Whitespace) + 1
           IN  /\ k + 1 <= Len(text)
               /\ text[k] \in {"-", "*"}
               /\ text[k + 1] \in Whitespace

\* _has_markdown_formatting(text)
HasMarkdownFormatting(text) ==
    \/ HeaderSearch(text)
    \/ BoldSearch(text)
    \/ ItalicSearch(text)
    \/ Contains(FenceLit, text)
    \/ ListSearch(text)

\* _is_valid_json_like(text)
IsValidJsonLike(text) ==
    LET stripped == Strip(text)
    IN  \/ StartsWith(stripped, <<"{">>) /\ EndsWith(stripped, <<"}">>)
        \/ StartsWith(stripped, <<"[">>) /\ EndsWith(stripped, <<"]">>)

\* whether r"(\d+)\s+words" matches s at index i
MinWordsMatchAt(s, i) ==
    LET d == RunEnd(s, i, DigitSet)
        w == RunEnd(s, d + 1, Whitespace)
    IN  /\ d >= i
        /\ w >= d + 1
        /\ w + Len(WordsLit) <= Len(s)
        /\ SubSeq(s, w + 1, w + Len(WordsLit)) = WordsLit

\* re.search(r"(\d+)\s+words", s): the leftmost match and its group 1
MinWordsSearch(s) ==
    LET starts == {i \in 1..Len(s) : MinWordsMatchAt(s, i)}
    IN  IF starts = {} THEN [found |-> FALSE, group1 |-> <<>>]
        ELSE LET i == CHOOSE a \in starts : \A b \in starts : a <= b
             IN  [found |-> TRUE, group1 |-> SubSeq(s, i, RunEnd(s, i, DigitSet))]

\* sum(1 for kw in keywords if kw.lower() in output_lower)
RECURSIVE CountMatches(_, _)
CountMatches(keywords, output_lower) ==
    IF keywords = <<>> THEN 0
    ELSE (IF Contains(Lower(Head(keywords)), output_lower) THEN 1 ELSE 0)
         + CountMatches(Tail(keywords), output_lower)

\* min(1.0, x) where x may have raised
MinOne(x) == IF x.exc # "none" THEN x ELSE Ok(RatMin(One, x.val))

\* the inclusion branch dividing by len(keywords) instead of max(1, len(keywords))
ScoreInclusionNoMax(description, output_lower) ==
    LET keywords == ExtractKeywords(description)
        matches == CountMatches(keywords, output_lower)
    IN  MinOne(TrueDiv(matches, Len(keywords)))

\* the inclusion branch of _score_rubric (lines 56-58)
ScoreInclusion(description, output_lower) ==
    LET keywords == ExtractKeywords(description)
        matches == CountMatches(keywords, output_lower)
    IN  MinOne(TrueDiv(matches, Max(1, Len(keywords))))

\* the format branch with the "bullet" alternative of line 66 left out
ScoreFormatListOnly(desc_lower, output) ==
    IF Contains(MarkdownLit, desc_lower) /\ HasMarkdownFormatting(output)
    THEN Ok(One)
    ELSE IF Contains(JsonLit, desc_lower) /\ IsValidJsonLike(output)
    THEN Ok(One)
    ELSE IF Contains(ListLit, desc_lower) /\ ListSearch(output)
    THEN Ok(One)
    ELSE Ok(Rat(1, 2))

\* the format branch of _score_rubric (lines 62-69)
ScoreFormat(desc_lower, output) ==
    IF Contains(MarkdownLit, desc_lower) /\ HasMarkdownFormatting(output)
    THEN Ok(One)
    ELSE IF Contains(JsonLit, desc_lower) /\ IsValidJsonLike(output)
    THEN Ok(One)
    ELSE IF /\ Contains(ListLit, desc_lower) \/ Contains(BulletLit, desc_lower)
            /\ ListSearch(output)
    THEN Ok(One)
    ELSE Ok(Rat(1, 2))

\* the default branches returning 1.0 instead of 0.7 without keywords
ScoreFallbackPassing(description, output_lower) ==
    LET keywords == ExtractKeywords(description)
        matches == CountMatches(keywords, output_lower)
    IN  IF keywords # <<>>
        THEN MinOne(TrueDiv(matches, Len(keywords)))
        ELSE Ok(One)

\* the default branches of _score_rubric (lines 80-86)
ScoreFallback(description, output_lower) ==
    LET keywords == ExtractKeywords(description)
        matches == CountMatches(keywords, output_lower)
    IN  IF keywords # <<>>
        THEN MinOne(TrueDiv(matches, Len(keywords)))
        ELSE Ok(Rat(7, 10))

\* the length branch with the quotient of line 77 inverted
ScoreLengthInverted(description, desc_lower, output, output_lower) ==
    LET word_count == Len(Split(output))
        match == MinWordsSearch(desc_lower)
        min_words == IntOf(match.group1)
    IN  IF match.found
        THEN IF word_count >= min_words
             THEN Ok(One)
             ELSE TrueDiv(min_words, word_count)
        ELSE ScoreFallback(description, output_lower)

\* the length branch counting characters, len(output), instead of words
ScoreLengthChars(description, desc_lower, output, output_lower) ==
    LET word_count == Len(output)
        match == MinWordsSearch(desc_lower)
        min_words == IntOf(match.group1)
    IN  IF match.found
        THEN IF word_count >= min_words
             THEN Ok(One)
             ELSE TrueDiv(word_count, min_words)
        ELSE ScoreFallback(description, output_lower)

\* the length branch dividing unless word_count > min_words
ScoreLengthStrict(description, desc_lower, output, output_lower) ==
    LET word_count == Len(Split(output))
        match == MinWordsSearch(desc_lower)
        min_words == IntOf(match.group1)
    IN  IF match.found
        THEN IF word_count > min_words
             THEN Ok(One)
             ELSE TrueDiv(word_count, min_words)
        ELSE ScoreFallback(description, output_lower)

\* the length branch of _score_rubric (lines 73-77), falling through to
\* the default branches when the description holds no number
ScoreLength(description, desc_lower, output, output_lower) ==
    LET word_count == Len(Split(output))
        match == MinWordsSearch(desc_lower)
        min_words == IntOf(match.group1)
    IN  IF match.found
        THEN IF word_count >= min_words
             THEN Ok(One)
             ELSE TrueDiv(word_count, min_words)
        ELSE ScoreFallback(description, output_lower)

\* _score_rubric with the format check made before the inclusion check
ScoreRubricFormatFirst(output, rubric) ==
    LET desc_lower == Lower(rubric.description)
        output_lower == Lower(output)
    IN  IF Contains(FormatLit, desc_lower)
        THEN ScoreFormat(desc_lower, output)
        ELSE IF \/ Contains(MustIncludeLit, desc_lower)
                \/ Contains(ShouldIncludeLit, desc_lower)
        THEN ScoreInclusion(rubric.description, output_lower)
        ELSE IF Contains(AtLeastLit, desc_lower) /\ Contains(WordsLit, desc_lower)
        THEN ScoreLength(rubric.description, desc_lower, output, output_lower)
        ELSE ScoreFallback(rubric.description, output_lower)

\* _score_rubric(output, rubric)
ScoreRubric(output, rubric) ==
    LET desc_lower == Lower(rubric.description)
        output_lower == Lower(output)
    IN  IF \/ Contains(MustIncludeLit, desc_lower)
           \/ Contains(ShouldIncludeLit, desc_lower)
        THEN ScoreInclusion(rubric.description, output_lower)
        ELSE IF Contains(FormatLit, desc_lower)
        THEN ScoreFormat(desc_lower, output)
        ELSE IF Contains(AtLeastLit, desc_lower) /\ Contains(WordsLit, desc_lower)
        THEN ScoreLength(rubric.description, desc_lower, output, output_lower)
        ELSE ScoreFallback(rubric.description, output_lower)

\* the loop of evaluate_output skipping the rubric items of weight 0
RECURSIVE EvalLoopSkipZeroWeight(_, _, _)
EvalLoopSkipZeroWeight(output, rubrics, n) ==
    IF n = 0
    THEN [exc |-> "none", scores |-> <<>>, weighted_sum |-> Zero,
          total_weight |-> Zero]
    ELSE LET prev == EvalLoopSkipZeroWeight(output, rubrics, n - 1)
             rubric == rubrics[n]
             score_val == ScoreRubric(output, rubric)
         IN  IF prev.exc # "none" \/ rubric.weight = Zero THEN prev
             ELSE IF score_val.exc # "none"
             THEN [prev EXCEPT !.exc = score_val.exc]
             ELSE [exc |-> "none",
                   scores |-> Append(prev.scores,
                                     [rubric |-> rubric.name,
                                      score |-> score_val.val,
                                      detail |-> rubric.description]),
                   weighted_sum |-> RatAdd(prev.weighted_sum,
                                           RatMul(score_val.val, rubric.weight)),
                   total_weight |-> RatAdd(prev.total_weight, rubric.weight)]

\* the loop of evaluate_output over rubrics[1..n]: the scores appended and
\* the two running sums, or the exception that ended it
RECURSIVE EvalLoop(_, _, _)
EvalLoop(output, rubrics, n) ==
    IF n = 0
    THEN [exc |-> "none", scores |-> <<>>, weighted_sum |-> Zero,
          total_weight |-> Zero]
    ELSE LET prev == EvalLoop(output, rubrics, n - 1)
             rubric == rubrics[n]
             score_val == ScoreRubric(output, rubric)
         IN  IF prev.exc # "none" THEN prev
             ELSE IF score_val.exc # "none"
             THEN [prev EXCEPT !.exc = score_val.exc]
             ELSE [exc |-> "none",
                   scores |-> Append(prev.scores,
                                     [rubric |-> rubric.name,
                                      score |-> score_val.val,
                                      detail |-> rubric.description]),
                   weighted_sum |-> RatAdd(prev.weighted_sum,
                                           RatMul(score_val.val, rubric.weight)),
                   total_weight |-> RatAdd(prev.total_weight, rubric.weight)]

\* evaluate_output dividing by len(rubrics) instead of total_weight
EvaluateOutputPlainMean(output, rubrics) ==
    LET loop == EvalLoop(output, rubrics, Len(rubrics))
        aggregate == IF RatLT(Zero, loop.total_weight)
                     THEN RatDiv(loop.weighted_sum, Rat(Len(rubrics), 1))
                     ELSE Ok(Zero)
    IN  IF loop.exc # "none"
        THEN [exc |-> loop.exc, scores |-> <<>>, aggregate |-> Zero]
        ELSE IF aggregate.exc # "none"
        THEN [exc |-> aggregate.exc, scores |-> <<>>, aggregate |-> Zero]
        ELSE [exc |-> "none", scores |-> loop.scores, aggregate |-> aggregate.val]

\* evaluate_output guarding the division of line 35 by "if rubrics" only
EvaluateOutputUnguarded(output, rubrics) ==
    LET loop == EvalLoop(output, rubrics, Len(rubrics))
        aggregate == IF rubrics # <<>>
                     THEN RatDiv(loop.weighted_sum, loop.total_weight)
                     ELSE Ok(Zero)
    IN  IF loop.exc # "none"
        THEN [exc |-> loop.exc, scores |-> <<>>, aggregate |-> Zero]
        ELSE IF aggregate.exc # "none"
        THEN [exc |-> aggregate.exc, scores |-> <<>>, aggregate |-> Zero]
        ELSE [exc |-> "none", scores |-> loop.scores, aggregate |-> aggregate.val]

\* evaluate_output(output, rubrics)
EvaluateOutput(output, rubrics) ==
    LET loop == EvalLoop(output, rubrics, Len(rubrics))
        aggregate == IF RatLT(Zero, loop.total_weight)
                     THEN RatDiv(loop.weighted_sum, loop.total_weight)
                     ELSE Ok(Zero)
    IN  IF loop.exc # "none"
        THEN [exc |-> loop.exc, scores |-> <<>>, aggregate |-> Zero]
        ELSE IF aggregate.exc # "none"
        THEN [exc |-> aggregate.exc, scores |-> <<>>, aggregate |-> Zero]
        ELSE [exc |-> "none", scores |-> loop.scores, aggregate |-> aggregate.val]

(***************************************************************************)
(* services/skill_loader.py                                                *)
(***************************************************************************)

\* str.splitlines() of a text whose only line boundary is "\n": the text up
\* to the first "\n", then the lines of what follows it
RECURSIVE SplitLines(_)
SplitLines(s) ==
    LET breaks == {i \in DOMAIN s : s[i] = "\n"}
        first == CHOOSE i \in breaks : \A j \in breaks : i <= j
    IN  IF s = <<>> THEN <<>>
        ELSE IF breaks = {} THEN <<s>>
        ELSE <<SubSeq(s, 1, first - 1)>> \o SplitLines(SubSeq(s, first + 1, Len(s)))

\* sep.join(parts)
RECURSIVE Join(_, _)
Join(sep, parts) ==
    IF parts = <<>> THEN <<>>
    ELSE IF Len(parts) = 1 THEN parts[1]
    ELSE parts[1] \o sep \o Join(sep, Tail(parts))

\* the length of the longest prefix of s made of characters of cs
LeadingRun(s, cs) == Len(s) - Len(LStripSet(s, cs))

\* no match of a regular expression
NoMatch == [matched |-> FALSE, group |-> <<>>]

\* the match of \s+(.+)$ at the start of a text without "\n": the whitespace
\* run is taken whole if a character follows it, else it gives its last
\* character to the group
SpaceThenText(s) ==
    LET w == LeadingRun(s, Whitespace)
    IN  IF w >= 1 /\ w < Len(s)
        THEN [matched |-> TRUE, group |-> SubSeq(s, w + 1, Len(s))]
        ELSE IF w >= 2
        THEN [matched |-> TRUE, group |-> <<s[w]>>]
        ELSE NoMatch

\* the most '#' characters of a heading
MaxHeadingLevel == 3

\* re.match(r"^#{1,3}\s+(.+)$", line)
HeadingMatch(line) ==
    LET h == LeadingRun(line, {"#"})
    IN  IF h >= 1 /\ h <= MaxHeadingLevel
        THEN SpaceThenText(SubSeq(line, h + 1, Len(line)))
        ELSE NoMatch

\* re.match(r"^\s*[-*]\s+(.+)$", line)
ListItemMatch(line) ==
    LET lead == LeadingRun(line, Whitespace)
    IN  IF lead < Len(line) /\ line[lead + 1] \in {"-", "*"}
        THEN SpaceThenText(SubSeq(line, lead + 2, Len(line)))
        ELSE NoMatch

\* a dict as the sequence of its <<key, value>> pairs in insertion order
DictHas(d, key) == \E k \in DOMAIN d : d[k][1] = key

\* d[key] = value appending to the value the key already has
DictSetMerging(d, key, value) ==
    IF DictHas(d, key)
    THEN [k \in DOMAIN d |->
            IF d[k][1] = key THEN <<key, d[k][2] \o <<"\n">> \o value>> ELSE d[k]]
    ELSE Append(d, <<key, value>>)

\* d[key] = value: a key the dict has keeps its place and gets the value
DictSet(d, key, value) ==
    IF DictHas(d, key)
    THEN [k \in DOMAIN d |-> IF d[k][1] = key THEN <<key, value>> ELSE d[k]]
    ELSE Append(d, <<key, value>>)

\* the loop of _split_sections from line i on; current_heading is None or
\* <<heading>>
RECURSIVE SectionsLoop(_, _, _, _, _)
SectionsLoop(lines, i, sections, current_heading, current_lines) ==
    IF i > Len(lines)
    THEN IF current_heading # <<>>
         THEN DictSet(sections, current_heading[1], Join(<<"\n">>, current_lines))
         ELSE sections
    ELSE LET match == HeadingMatch(lines[i])
         IN  IF match.matched
             THEN SectionsLoop(lines, i + 1,
                      IF current_heading # <<>>
                      THEN DictSet(sections, current_heading[1],
                                   Join(<<"\n">>, current_lines))
                      ELSE sections,
                      <<Strip(match.group)>>, <<>>)
             ELSE SectionsLoop(lines, i + 1, sections, current_heading,
                               Append(current_lines, lines[i]))

\* _split_sections(content)
SplitSections(content) ==
    SectionsLoop(SplitLines(content), 1, <<>>, <<>>, <<>>)

\* the loop of _extract_list_items from line i on
RECURSIVE ListItemsLoop(_, _)
ListItemsLoop(lines, i) ==
    IF i > Len(lines) THEN <<>>
    ELSE LET match == ListItemMatch(lines[i])
         IN  (IF match.matched THEN <<Strip(match.group)>> ELSE <<>>)
             \o ListItemsLoop(lines, i + 1)

\* _extract_list_items(body)
ExtractListItems(body) == ListItemsLoop(SplitLines(body), 1)

\* _extract_description collecting every paragraph: a blank line after a
\* collected line is skipped like the blank lines before it
RECURSIVE DescriptionLoopAllParagraphs(_, _, _, _)
DescriptionLoopAllParagraphs(lines, i, past_title, desc_lines) ==
    IF i > Len(lines) THEN desc_lines
    ELSE LET line == lines[i]
         IN  IF StartsWith(line, <<"#", " ">>) /\ ~past_title
             THEN DescriptionLoopAllParagraphs(lines, i + 1, TRUE, desc_lines)
             ELSE IF ~past_title
             THEN DescriptionLoopAllParagraphs(lines, i + 1, past_title, desc_lines)
             ELSE IF Strip(line) = <<>>
             THEN DescriptionLoopAllParagraphs(lines, i + 1, past_title, desc_lines)
             ELSE IF StartsWith(line, <<"#">>)
             THEN desc_lines
             ELSE DescriptionLoopAllParagraphs(lines, i + 1, past_title,
                                               Append(desc_lines, Strip(line)))

\* the loop of _extract_description from line i on
RECURSIVE DescriptionLoop(_, _, _, _)
DescriptionLoop(lines, i, past_title, desc_lines) ==
    IF i > Len(lines) THEN desc_lines
    ELSE LET line == lines[i]
         IN  IF StartsWith(line, <<"#", " ">>) /\ ~past_title
             THEN DescriptionLoop(lines, i + 1, TRUE, desc_lines)
             ELSE IF ~past_title
             THEN DescriptionLoop(lines, i + 1, past_title, desc_lines)
             ELSE IF Strip(line) = <<>>
             THEN IF desc_lines # <<>>
                  THEN desc_lines
                  ELSE DescriptionLoop(lines, i + 1, past_title, desc_lines)
             ELSE IF StartsWith(line, <<"#">>)
             THEN desc_lines
             ELSE DescriptionLoop(lines, i + 1, past_title,
                                  Append(desc_lines, Strip(line)))

\* _extract_description(content)
ExtractDescription(content) ==
    Join(<<" ">>, DescriptionLoop(SplitLines(Strip(content)), 1, FALSE, <<>>))

\* the category of a section by its heading: "" if the section is skipped;
\* here the output-format test comes first
CategoryOfOutputFirst(section_name) ==
    LET lower == Lower(section_name)
    IN  IF Contains(<<"o","u","t","p","u","t">>, lower) /\ Contains(FormatLit, lower)
        THEN "structural"
        ELSE IF Contains(<<"c","o","n","s","t","r","a","i","n","t">>, lower)
        THEN "behavioral"
        ELSE ""

\* the category of a section by its heading: "" if the section is skipped
CategoryOf(section_name) ==
    LET lower == Lower(section_name)
    IN  IF Contains(<<"c","o","n","s","t","r","a","i","n","t">>, lower)
        THEN "behavioral"
        ELSE IF Contains(<<"o","u","t","p","u","t">>, lower) /\ Contains(FormatLit, lower)
        THEN "structural"
        ELSE ""

\* the rubric items of one section numbered after the items before them
\* instead of from 0
SectionRubricsGlobalIndex(section_name, items, category, rubrics) ==
    rubrics \o
    [i \in 1..Len(items) |->
        [name |-> section_name \o <<"_">> \o Decimal(Len(rubrics) + i - 1),
         description |-> items[i],
         weight |-> One,
         category |-> category]]

\* the inner loop of extract_rubrics: rubrics with the items of one section
\* appended
SectionRubrics(section_name, items, category, rubrics) ==
    rubrics \o
    [i \in 1..Len(items) |->
        [name |-> section_name \o <<"_">> \o Decimal(i - 1),
         description |-> items[i],
         weight |-> One,
         category |-> category]]

\* the outer loop of extract_rubrics from section k on
RECURSIVE RubricsLoop(_, _, _)
RubricsLoop(sections, k, rubrics) ==
    IF k > Len(sections) THEN rubrics
    ELSE LET section_name == sections[k][1]
             section_body == sections[k][2]
             category == CategoryOf(section_name)
         IN  IF category = ""
             THEN RubricsLoop(sections, k + 1, rubrics)
             ELSE RubricsLoop(sections, k + 1,
                      SectionRubrics(section_name, ExtractListItems(section_body),
                                     category, rubrics))

\* extract_rubrics(content)
ExtractRubrics(content) == RubricsLoop(SplitSections(content), 1, <<>>)

\* description and rubrics of parse_skill(path) for a file of this content
ParseSkill(content) ==
    [description |-> ExtractDescription(content),
     rubrics |-> ExtractRubrics(content)]

(***************************************************************************)
(* services/inference.py                                                   *)
(***************************************************************************)

\* the exceptions of an attempt that are httpx.HTTPError: a transport error
\* of client.request, the status error of raise_for_status
HTTPErrors == {"ConnectError", "HTTPStatusError"}

\* what an attempt meets: a 2xx response with a JSON object as body, a 2xx
\* response whose body response.json() cannot decode, or an httpx.HTTPError
Responses == {"json", "not_json"} \cup HTTPErrors

\* the request of health_check to /health
HealthRequest == [method |-> "GET", endpoint |-> "/health", json |-> None]

\* the request of complete("test", max_tokens=1)
CompletionRequest ==
    [method |-> "POST", endpoint |-> "/v1/completions",
     json |-> <<[prompt |-> <<"t","e","s","t">>, max_tokens |-> 1, temperature |-> Rat(7, 10)]>>]

\* 2**attempt
Backoff(attempt) == 2 ^ attempt

\* raise last_exception: raising None is a TypeError
RaiseLast(last_exception) ==
    IF last_exception = None THEN Raise("TypeError") ELSE Raise(last_exception[1])

(***************************************************************************)
(* The inputs the calls are made with                                      *)
(***************************************************************************)

\* the largest N of a description "at least N words"
MaxMinWords == 2

\* the largest number of words of an output text
MaxOutWords == 3

\* the largest number of listed keywords of a description
MaxListedWords == 6

\* the largest number of rubric items of one evaluate_output call
MaxRubrics == 2

\* " ".join of the non-empty parts
RECURSIVE JoinWords(_)
JoinWords(parts) ==
    IF parts = <<>> THEN <<>>
    ELSE LET rest == JoinWords(Tail(parts))
         IN  IF Head(parts) = <<>> THEN rest
             ELSE IF rest = <<>> THEN Head(parts)
             ELSE Head(parts) \o <<" ">> \o rest

InclusionPhrases == {<<>>,
                     <<"M","u","s","t"," ","i","n","c","l","u","d","e">>,
                     <<"s","h","o","u","l","d"," ","i","n","c","l","u","d","e">>}

FormatPhrases == {<<>>,
                  <<"f","o","r","m","a","t">>,
                  <<"m","a","r","k","d","o","w","n"," ","f","o","r","m","a","t">>,
                  <<"J","S","O","N"," ","f","o","r","m","a","t">>,
                  <<"l","i","s","t"," ","f","o","r","m","a","t">>,
                  <<"b","u","l","l","e","t"," ","f","o","r","m","a","t">>}

KeywordPhrases == {<<>>,
                   <<"\"","f","o","o","\"">>,
                   <<"\"","f","o","o","\""," ","a","n","d"," ","\"","B","a","r","\"">>,
                   <<"H","a","n","d","l","i","n","g"," ","i","n","c","l","u","d","e",","," ","e","r","r","o","r",".">>}

LengthPhrases ==
    {<<>>, JoinWords(<<AtLeastLit, <<"s","o","m","e">>, WordsLit>>)}
    \cup {JoinWords(<<AtLeastLit, Decimal(n), WordsLit>>) :
            n \in (0..MaxMinWords) \cup {10}}

ListedWords == <<<<"s","e","c","t","i","o","n">>,
                 <<"s","u","m","m","a","r","y">>,
                 <<"e","x","a","m","p","l","e">>,
                 <<"h","e","a","d","e","r","s">>,
                 <<"c","o","n","t","e","x","t">>,
                 <<"r","e","s","u","l","t","s">>,
                 <<"d","e","t","a","i","l","s">>,
                 <<"w","a","r","n","i","n","g">>,
                 <<"l","i","c","e","n","s","e">>>>

Quote(w) == <<"\"">> \o w \o <<"\"">>

\* the first n listed words, each in double quotes or bare
Listed(n, quoted) ==
    JoinWords([i \in 1..n |->
        LET w == ListedWords[((i - 1) % Len(ListedWords)) + 1]
        IN  IF quoted THEN Quote(w) ELSE w])

\* descriptions that combine the triggers of the strategies
PhraseDescriptions ==
    {JoinWords(<<i, f, l, k>>) :
        i \in InclusionPhrases, f \in FormatPhrases,
        l \in LengthPhrases, k \in KeywordPhrases}

\* descriptions that list up to MaxListedWords keywords
ListedDescriptions ==
    {JoinWords(<<i, Listed(n, q)>>) :
        i \in InclusionPhrases, n \in 1..MaxListedWords, q \in BOOLEAN}

\* "at least" and "words" without a number, and ten quoted keywords of which
\* an output with the word "plain" holds seven
SevenOfTenDescription ==
    <<"a","t"," ","l","e","a","s","t"," ","s","o","m","e"," ","w","o","r","d","s"," ","\"","p","\""," ","\"","l","\""," ","\"","a","\""," ","\"","i","\""," ","\"","n","\""," ","\"","p","l","\""," ","\"","a","i","\""," ","\"","x","\""," ","\"","y","\""," ","\"","z","\"">>

Descriptions ==
    PhraseDescriptions \cup ListedDescriptions \cup {SevenOfTenDescription}

OutputWords == <<<<"p","l","a","i","n">>,
                 <<"F","O","O">>,
                 <<"S","e","c","t","i","o","n">>,
                 <<"b","a","r">>,
                 <<"s","u","m","m","a","r","y">>,
                 <<"h","a","n","d","l","i","n","g">>>>

\* what an output text puts before and after its words
Wrappers == {<<<<>>, <<>>>>,
             <<<<"#"," ">>, <<>>>>,
             <<<<"#","#","#","#","#","#","#"," ">>, <<>>>>,
             <<<<"-"," ">>, <<>>>>,
             <<<<"i","n","t","r","o","\n"," "," ","*"," ">>, <<>>>>,
             <<<<"-">>, <<>>>>,
             <<<<"a"," ","-"," ">>, <<>>>>,
             <<<<" ","{">>, <<"}","\n">>>>,
             <<<<"[">>, <<"]">>>>,
             <<<<"{">>, <<"]">>>>,
             <<<<"*","*">>, <<"*","*">>>>,
             <<<<"*">>, <<" ","*">>>>,
             <<<<>>, <<Backtick,Backtick,Backtick>>>>}

OutputText(wrapper, n) ==
    wrapper[1]
    \o JoinWords([i \in 1..n |-> OutputWords[((i - 1) % Len(OutputWords)) + 1]])
    \o wrapper[2]

Outputs == {OutputText(w, n) : w \in Wrappers, n \in 0..MaxOutWords}

RubricOf(description) ==
    [name |-> <<"r">>, description |-> description, weight |-> One,
     category |-> "structural"]

\* the rubric items of the evaluate_output calls, without their weights
EvalRubrics == {[name |-> <<"c","o","n","t","e","n","t","_","c","h","e","c","k">>,
                 description |-> <<"M","u","s","t"," ","i","n","c","l","u","d","e"," ","\"","f","o","o","\"">>,
                 category |-> "behavioral"],
                [name |-> <<"e","m","p","t","y","_","c","h","e","c","k">>,
                 description |-> <<"M","u","s","t"," ","i","n","c","l","u","d","e"," ","i","t">>,
                 category |-> "behavioral"],
                [name |-> <<"f","o","r","m","a","t","_","c","h","e","c","k">>,
                 description |-> <<"O","u","t","p","u","t"," ","m","u","s","t"," ","b","e"," ","i","n"," ","m","a","r","k","d","o","w","n"," ","f","o","r","m","a","t">>,
                 category |-> "structural"],
                [name |-> <<"l","e","n","g","t","h","_","c","h","e","c","k">>,
                 description |-> <<"R","e","s","p","o","n","s","e"," ","s","h","o","u","l","d"," ","b","e"," ","a","t"," ","l","e","a","s","t"," ","2"," ","w","o","r","d","s">>,
                 category |-> "structural"],
                [name |-> <<"z","e","r","o","_","c","h","e","c","k">>,
                 description |-> <<"a","t"," ","l","e","a","s","t"," ","0"," ","w","o","r","d","s">>,
                 category |-> "structural"],
                [name |-> <<"p","l","a","i","n","_","c","h","e","c","k">>,
                 description |-> <<"B","e"," ","n","i","c","e">>,
                 category |-> "behavioral"]}

EvalWeights == {Rat(-1, 1), Zero, One, Rat(2, 1)}

EvalRubricItems ==
    {[name |-> r.name, description |-> r.description, weight |-> w,
      category |-> r.category] : r \in EvalRubrics, w \in EvalWeights}

EvalRubricLists ==
    UNION {[1..n -> EvalRubricItems] : n \in 0..MaxRubrics}

EvalOutputs ==
    {OutputText(<<<<>>, <<>>>>, n) : n \in 0..MaxOutWords}
    \cup {<<"#"," ","T","i","t","l","e","\n","-"," ","a","\n">>}

(***************************************************************************)
(* services/data_generator.py                                              *)
(***************************************************************************)

UpperChar(c) ==
    IF \E i \in 1..Len(LowerChars) : LowerChars[i] = c
    THEN UpperChars[CHOOSE i \in 1..Len(LowerChars) : LowerChars[i] = c]
    ELSE c

\* str.capitalize()
Capitalize(s) ==
    IF s = <<>> THEN s ELSE <<UpperChar(s[1])>> \o Lower(Tail(s))

\* "".join(parts)
RECURSIVE Concat(_)
Concat(parts) ==
    IF parts = <<>> THEN <<>> ELSE Head(parts) \o Concat(Tail(parts))

action_words ==
    <<<<"c","r","e","a","t","e">>, <<"g","e","n","e","r","a","t","e">>, <<"b","u","i","l","d">>, <<"i","m","p","l","e","m","e","n","t">>, <<"d","e","s","i","g","n">>,
      <<"d","e","v","e","l","o","p">>>>

\* description[:100] of the task clause
TaskDetailLength == 100

\* constraint[:50] of the generic section
ConstraintQuoteLength == 50

DefaultConstraint == <<"P","r","o","v","i","d","e"," ","a"," ","d","e","t","a","i","l","e","d"," ","r","e","s","p","o","n","s","e">>

IncludeLit == <<"i","n","c","l","u","d","e">>

\* _extract_triggers looking for the action words in the description as
\* written instead of in its lower-cased copy
ExtractTriggersCaseSensitive(skill) ==
    LET defaults == <<<<"U","s","e"," ","t","h","e"," ">> \o skill.id \o <<" ","s","k","i","l","l">>,
                      <<"A","p","p","l","y"," ">> \o skill.id,
                      <<"E","x","e","c","u","t","e"," ">> \o skill.id>>
        found == SelectSeq(action_words,
                           LAMBDA action : Contains(action, skill.description))
        Trigger(action) == Capitalize(action) \o <<" ","u","s","i","n","g"," ">> \o skill.id
    IN  IF skill.description # <<>>
        THEN defaults \o [k \in DOMAIN found |-> Trigger(found[k])]
        ELSE defaults

\* _extract_triggers(skill)
ExtractTriggers(skill) ==
    LET defaults == <<<<"U","s","e"," ","t","h","e"," ">> \o skill.id \o <<" ","s","k","i","l","l">>,
                      <<"A","p","p","l","y"," ">> \o skill.id,
                      <<"E","x","e","c","u","t","e"," ">> \o skill.id>>
        desc_lower == Lower(skill.description)
        found == SelectSeq(action_words, LAMBDA action : Contains(action, desc_lower))
        Trigger(action) == Capitalize(action) \o <<" ","u","s","i","n","g"," ">> \o skill.id
    IN  IF skill.description # <<>>
        THEN defaults \o [k \in DOMAIN found |-> Trigger(found[k])]
        ELSE defaults

\* _extract_constraints(skill)
ExtractConstraints(skill) ==
    LET kept == SelectSeq(skill.rubrics,
                    LAMBDA rubric : rubric.category \in {"behavioral", "structural"})
        constraints == [k \in DOMAIN kept |-> kept[k].description]
    IN  IF constraints # <<>> THEN constraints ELSE <<DefaultConstraint>>

\* _generate_prompt taking the first trigger and the first variation whatever
\* the index
GeneratePromptIgnoringIndex(skill, triggers, index) ==
    LET trigger == triggers[1]
        task_detail ==
            IF skill.description # <<>>
            THEN <<" ","T","a","s","k",":"," ">> \o Take(skill.description, TaskDetailLength)
            ELSE <<" ","T","a","s","k",":"," ","C","o","m","p","l","e","t","e"," ","t","h","e"," ">> \o skill.id \o <<" ","o","p","e","r","a","t","i","o","n",".">>
    IN  trigger \o <<" ","t","o"," ","s","o","l","v","e"," ","t","h","i","s"," ","p","r","o","b","l","e","m",".">> \o task_detail

\* _generate_prompt(skill, triggers, index)
GeneratePrompt(skill, triggers, index) ==
    LET trigger == triggers[(index % Len(triggers)) + 1]
        variations ==
            <<trigger \o <<" ","t","o"," ","s","o","l","v","e"," ","t","h","i","s"," ","p","r","o","b","l","e","m",".">>,
              <<"P","l","e","a","s","e"," ">> \o Lower(trigger) \o <<" ","f","o","r"," ","t","h","e"," ","f","o","l","l","o","w","i","n","g"," ","t","a","s","k",".">>,
              <<"I"," ","n","e","e","d"," ","h","e","l","p"," ","w","i","t","h"," ">> \o skill.id \o <<"."," ">> \o trigger \o <<".">>,
              trigger \o <<" ","w","i","t","h"," ","t","h","e"," ","f","o","l","l","o","w","i","n","g"," ","r","e","q","u","i","r","e","m","e","n","t","s",".">>>>
        base_prompt == variations[(index % Len(variations)) + 1]
        task_detail ==
            IF skill.description # <<>>
            THEN <<" ","T","a","s","k",":"," ">> \o Take(skill.description, TaskDetailLength)
            ELSE <<" ","T","a","s","k",":"," ","C","o","m","p","l","e","t","e"," ","t","h","e"," ">> \o skill.id \o <<" ","o","p","e","r","a","t","i","o","n",".">>
    IN  base_prompt \o task_detail

\* the response_parts one constraint appends, i its 0-based position
ConstraintParts(constraint, i) ==
    LET constraint_lower == Lower(constraint)
    IN  IF Contains(FormatLit, constraint_lower)
        THEN IF Contains(MarkdownLit, constraint_lower)
             THEN <<<<"#","#"," ","F","o","r","m","a","t","t","e","d"," ","O","u","t","p","u","t","\n">>,
                    <<"-"," ","I","t","e","m"," ","1","\n","-"," ","I","t","e","m"," ","2","\n","-"," ","I","t","e","m"," ","3","\n">>>>
             ELSE IF Contains(JsonLit, constraint_lower)
             THEN <<<<Backtick,Backtick,Backtick,"j","s","o","n","\n","{","\"","r","e","s","u","l","t","\"",":"," ","\"","e","x","a","m","p","l","e","\"","}","\n",Backtick,Backtick,Backtick,"\n">>>>
             ELSE IF Contains(ListLit, constraint_lower)
             THEN <<<<"-"," ","P","o","i","n","t"," ","A","\n","-"," ","P","o","i","n","t"," ","B","\n","-"," ","P","o","i","n","t"," ","C","\n">>>>
             ELSE <<>>
        ELSE IF Contains(IncludeLit, constraint_lower)
        THEN <<<<"#","#"," ","S","e","c","t","i","o","n"," ">> \o Decimal(i + 1) \o <<"\n">>,
               <<"T","h","i","s"," ","s","e","c","t","i","o","n"," ","a","d","d","r","e","s","s","e","s",":"," ">> \o constraint \o <<"\n">>>>
        ELSE <<<<"#","#"," ","C","o","n","s","t","r","a","i","n","t"," ">> \o Decimal(i + 1) \o <<"\n">>,
               <<"A","d","d","r","e","s","s","i","n","g",":"," ">> \o Take(constraint, ConstraintQuoteLength)
                    \o <<".",".",".","\n">>>>

\* the loop of _generate_response over constraints[i:], i 0-based
RECURSIVE ResponseLoop(_, _)
ResponseLoop(constraints, i) ==
    IF i >= Len(constraints) THEN <<>>
    ELSE ConstraintParts(constraints[i + 1], i) \o ResponseLoop(constraints, i + 1)

\* _generate_response(skill, constraints, index)
GenerateResponse(skill, constraints, index) ==
    LET response_parts ==
            <<<<"#"," ">> \o skill.id \o <<" ","R","e","s","p","o","n","s","e","\n">>>>
            \o ResponseLoop(constraints, 0)
            \o <<<<"\n","#","#"," ","S","u","m","m","a","r","y","\n">>,
                 <<"T","h","e"," ">> \o skill.id \o <<" ","s","k","i","l","l"," ","h","a","s"," ","b","e","e","n"," ","s","u","c","c","e","s","s","f","u","l","l","y"," ","a","p","p","l","i","e","d"," ">>,
                 <<"w","i","t","h"," ">> \o Decimal(Len(constraints)) \o <<" ","c","o","n","s","t","r","a","i","n","t","(","s",")"," ","s","a","t","i","s","f","i","e","d",".","\n">>>>
    IN  Concat(response_parts)

\* the loop of generate_training_data: the samples of the indices i..num_samples-1
RECURSIVE SampleLoop(_, _, _, _, _)
SampleLoop(skill, triggers, constraints, i, num_samples) ==
    IF i >= num_samples THEN <<>>
    ELSE <<[prompt |-> GeneratePrompt(skill, triggers, i),
            response |-> GenerateResponse(skill, constraints, i)]>>
         \o SampleLoop(skill, triggers, constraints, i + 1, num_samples)

\* generate_training_data reading the generator before it reseeds it: the
\* samples start at an index drawn from the state the earlier calls left
GenerateTrainingDataStale(skill, num_samples, seed, random_state) ==
    LET drawn == IF random_state = None THEN 0 ELSE 1
    IN  [samples |-> SampleLoop(skill, ExtractTriggers(skill),
                                ExtractConstraints(skill), drawn,
                                num_samples + drawn),
         random_state |-> IF seed # None THEN seed ELSE random_state]

\* generate_training_data(skill, num_samples, seed) with the state of the
\* process-wide random generator before the call; returns the samples and the
\* state of the generator after the call (random.seed(seed) wrote it, nothing
\* draws from it)
GenerateTrainingData(skill, num_samples, seed, random_state) ==
    [samples |-> SampleLoop(skill, ExtractTriggers(skill),
                            ExtractConstraints(skill), 0, num_samples),
     random_state |-> IF seed # None THEN seed ELSE random_state]

\* the largest num_samples of a generate_training_data call
MaxSamples == 6

\* the largest number of finished calls of a process
MaxCalls == 3

GenIds == {<<"p","d","f">>, <<"W","e","b","-","A","P","I">>}

\* no description; 3 triggers; 5 triggers; 9 triggers and more than 100
\* characters
GenDescriptions ==
    {<<>>,
     <<"S","u","m","m","a","r","i","s","e"," ","t","e","x","t">>,
     <<"C","r","e","a","t","e"," ","a","n","d"," ","B","U","I","L","D"," ","r","e","p","o","r","t","s">>,
     <<"H","e","l","p","s"," ","y","o","u"," ","d","e","v","e","l","o","p",","," ","d","e","s","i","g","n",","," ","i","m","p","l","e","m","e","n","t",","," ","g","e","n","e","r","a","t","e",","," ","b","u","i","l","d"," ","a","n","d"," ","c","r","e","a","t","e"," ","d","a","s","h","b","o","a","r","d","s"," ","f","o","r"," ","t","h","e"," ","q","u","a","r","t","e","r","l","y"," ","s","a","l","e","s"," ","r","e","v","i","e","w"," ","m","e","e","t","i","n","g">>}

GenRubric(description, category) ==
    [name |-> <<"r">>, description |-> description, weight |-> One,
     category |-> category]

MarkdownRubric == GenRubric(<<"O","u","t","p","u","t"," ","m","u","s","t"," ","b","e"," ","i","n"," ","M","a","r","k","d","o","w","n"," ","f","o","r","m","a","t">>, "structural")

JsonRubric == GenRubric(<<"R","e","t","u","r","n"," ","J","S","O","N"," ","f","o","r","m","a","t">>, "structural")

ListRubric == GenRubric(<<"U","s","e"," ","l","i","s","t"," ","f","o","r","m","a","t">>, "structural")

TableRubric == GenRubric(<<"U","s","e"," ","a"," ","t","a","b","l","e"," ","f","o","r","m","a","t">>, "structural")

IncludeRubric == GenRubric(<<"M","u","s","t"," ","I","n","c","l","u","d","e"," ","a"," ","s","u","m","m","a","r","y">>, "behavioral")

IncludeFormatRubric == GenRubric(<<"M","u","s","t"," ","i","n","c","l","u","d","e"," ","t","h","e"," ","f","o","r","m","a","t"," ","v","e","r","s","i","o","n">>, "behavioral")

LongRubric ==
    GenRubric(<<"H","a","n","d","l","e"," ","e","v","e","r","y"," ","e","r","r","o","r"," ","g","r","a","c","e","f","u","l","l","y"," ","a","n","d"," ","a","l","w","a","y","s"," ","r","e","p","o","r","t"," ","t","h","e"," ","f","a","i","l","i","n","g"," ","s","t","e","p">>, "behavioral")

ShortRubric == GenRubric(<<"B","e"," ","c","o","n","c","i","s","e">>, "behavioral")

OtherRubric == GenRubric(<<"B","e"," ","p","o","l","i","t","e">>, "other")

GenRubricLists ==
    {<<>>,
     <<OtherRubric>>,
     <<MarkdownRubric>>,
     <<TableRubric>>,
     <<IncludeFormatRubric, ShortRubric>>,
     <<JsonRubric, IncludeRubric>>,
     <<ListRubric, LongRubric>>,
     <<ShortRubric, OtherRubric, IncludeRubric>>,
     <<LongRubric, MarkdownRubric, JsonRubric, ListRubric>>,
     <<IncludeRubric, TableRubric, ShortRubric>>}

SkillOf(id, description, rubric_list) ==
    [id |-> id, path |-> <<"s","k","i","l","l","s","/">> \o id \o <<"/","S","K","I","L","L",".","m","d">>,
     description |-> description, rubrics |-> rubric_list]

GenSkills ==
    {SkillOf(id, d, rs) : id \in GenIds, d \in GenDescriptions,
                          rs \in GenRubricLists}

GenSeeds == {None, <<7>>, <<42>>}

\* the skills, outputs and rubric lists of the calls of a process
SessionSkills ==
    {SkillOf(<<"p","d","f">>, <<"C","r","e","a","t","e"," ","a","n","d"," ","B","U","I","L","D"," ","r","e","p","o","r","t","s">>, <<MarkdownRubric>>),
     SkillOf(<<"W","e","b","-","A","P","I">>, <<>>, <<IncludeRubric, ShortRubric>>)}

SessionSamples == {2}

SessionOutputs == {<<"#"," ","T","i","t","l","e","\n","-"," ","a"," ","s","u","m","m","a","r","y","\n">>}

SessionRubricLists == {<<MarkdownRubric, IncludeRubric>>}

SessionDocuments ==
    {<<"#"," ","T","i","t","l","e","\n","T","e","x","t","\n","#","#"," ","C","o","n","s","t","r","a","i","n","t","s","\n","-"," ","a","\n","*"," ","b","\n","#","#"," ","C","o","n","s","t","r","a","i","n","t","s","\n","-"," ","c","\n">>,
     <<"#"," ","T","o","o","l","\n","\n","C","r","e","a","t","e"," ","r","e","p","o","r","t","s","\n","f","a","s","t","\n","\n","#","#"," ","O","u","t","p","u","t"," ","F","o","r","m","a","t","\n","-"," ","U","s","e"," ","l","i","s","t"," ","f","o","r","m","a","t","\n">>}

\* the largest number of lines of a composed document
MaxDocLines == 3

\* the lines documents are composed of
DocLines ==
    {<<"#"," ","T","i","t","l","e">>,
     <<"#","\t","T","o","o","l">>,
     <<"#","#"," ","C","o","n","s","t","r","a","i","n","t","s">>,
     <<"#","#","#"," ","O","u","t","p","u","t"," ","F","o","r","m","a","t">>,
     <<"#","#","#","#"," ","D","e","e","p">>,
     <<>>,
     <<" "," ","I","n","t","r","o"," ","t","e","x","t"," ">>,
     <<"-"," ","M","u","s","t"," ","i","n","c","l","u","d","e"," ","\"","f","o","o","\"">>,
     <<" "," ","*"," ","i","t","e","m"," ","t","w","o"," "," ">>,
     <<"#"," "," ">>}

\* the documents of n lines
RECURSIVE DocsOfLines(_)
DocsOfLines(n) ==
    IF n = 0 THEN {<<>>}
    ELSE {<<line>> \o rest : line \in DocLines, rest \in DocsOfLines(n - 1)}

ComposedDocs ==
    {Join(<<"\n">>, lines) : lines \in UNION {DocsOfLines(n) : n \in 0..MaxDocLines}}

\* longer documents: the scenario of the specification, repeated headings,
\* a section between two sections of one heading, headings of both kinds,
\* list markers without text, indented and trailing material
ScenarioDocs ==
    {<<"#","#"," ","C","o","n","s","t","r","a","i","n","t","s","\n","-"," ","M","u","s","t"," ","i","n","c","l","u","d","e"," ","\"","f","o","o","\"","\n">>,
     <<"\n","\n"," "," ","#"," ","T","i","t","l","e","\n","\n","F","i","r","s","t"," ","l","i","n","e","\n"," "," ","s","e","c","o","n","d"," ","l","i","n","e"," "," ","\n","\n","N","e","x","t"," ","p","a","r","a","g","r","a","p","h","\n","#","#"," ","C","o","n","s","t","r","a","i","n","t","s","\n","-"," ","a","\n">>,
     <<"#"," ","T","i","t","l","e","\n","T","e","x","t","\n","#","#"," ","C","o","n","s","t","r","a","i","n","t","s","\n","-"," ","a","\n","*"," ","b","\n","#","#"," ","C","o","n","s","t","r","a","i","n","t","s","\n","-"," ","c","\n">>,
     <<"#","#"," ","C","o","n","s","t","r","a","i","n","t","s","\n","-"," ","a","\n","#","#"," ","O","u","t","p","u","t"," ","F","o","r","m","a","t","\n","-"," ","b","\n","#","#","#"," ","c","o","n","s","t","r","a","i","n","t","s"," ","\n","-"," ","c","\n","-"," ","d","\n","#","#"," ","C","o","n","s","t","r","a","i","n","t","s","\n","-"," ","e","\n">>,
     <<"#"," ","T","o","o","l","\n","#","#"," ","O","u","t","p","u","t"," ","f","o","r","m","a","t"," ","C","O","N","S","T","R","A","I","N","T","S","\n","-"," ","x","\n","#","#"," ","F","o","r","m","a","t"," ","o","f"," ","t","h","e"," ","o","u","t","p","u","t","\n","-"," ","y","\n","#","#"," ","N","o","t","e","s","\n","-"," ","z","\n","#","C","o","n","s","t","r","a","i","n","t","s","\n","-"," ","w","\n">>,
     <<"p","r","e","f","a","c","e","\n","-"," ","l","o","s","t","\n","#","#"," ","C","o","n","s","t","r","a","i","n","t","s","_","1","\n","-"," "," ","\n","-","n","o","s","p","a","c","e","\n","-"," ","-"," ","n","e","s","t","e","d","\n","*","\t","i","t","e","m","\n","*","*"," ","b","o","l","d"," ","*","*","\n","#","#"," ","C","o","n","s","t","r","a","i","n","t","s","\n","-"," ","p","\n","-"," ","q","\n">>,
     <<"#"," ","T","i","t","l","e","\n"," ","#","i","n","d","e","n","t","e","d","\n","t","e","x","t","\n","#","t","a","g","\n","m","o","r","e","\n">>,
     <<"#","\t","T","o","o","l","\n","B","o","d","y","\n","#"," ","S","e","c","o","n","d","\n","A","f","t","e","r","\n","\n","L","a","s","t","\n">>,
     <<"p","l","a","i","n"," ","t","e","x","t"," ","o","n","l","y","\n","\n","n","o"," ","h","e","a","d","i","n","g"," ","a","t"," ","a","l","l">>,
     <<"#","#","#","\t"," ","O","u","t","p","u","t","\t","F","o","r","m","a","t"," ","\n","\t","-"," ","t","a","b","b","e","d"," ","i","t","e","m","\t","\n","#","#","#","#"," ","C","o","n","s","t","r","a","i","n","t","s","\n","-"," ","k","e","p","t"," ","i","n"," ","b","o","d","y","\n">>}

Documents == ComposedDocs \cup ScenarioDocs

\* the largest max_retries of a client
MaxRetries == 3

(***************************************************************************)
(* controllers/evaluation.py                                               *)
(***************************************************************************)

\* the skill the loop of run_evaluation stops at: the first of the list with
\* this id, or None
FindSkill(skill_list, skill_id) ==
    LET found == {k \in DOMAIN skill_list : skill_list[k].id = skill_id}
        first == CHOOSE k \in found : \A j \in found : k <= j
    IN  IF found = {} THEN None ELSE <<skill_list[first]>>

\* s[:n]
SliceTo(s, n) == IF n >= 0 THEN Take(s, n) ELSE SubSeq(s, 1, Len(s) + n)

\* the prompts of the request, or those of the samples generated from the skill
EvalPrompts(found_skill, request) ==
    LET samples == GenerateTrainingData(found_skill, request.num_samples,
                                        None, None).samples
        kept == SliceTo(samples, request.num_samples)
    IN  IF request.prompts # <<>>
        THEN request.prompts
        ELSE [k \in DOMAIN kept |-> kept[k].prompt]

\* if request.model_path: neither None nor the empty string
HasModel(request) ==
    request.model_path # None /\ request.model_path[1] # <<>>

\* an adapter path that holds no adapter: trainer.load_adapter raises
MissingAdapter == <<"a","d","a","p","t","e","r","s","/","m","i","s","s","i","n","g">>

\* one pass of the loops: all_scores.extend(scores) with the scores of the
\* call of evaluate_output made, its aggregate dropped; an exception ends
\* the loop
EvaluationStep(prev, call, result) ==
    IF prev.exc # "none" THEN prev
    ELSE IF result.exc # "none"
    THEN [prev EXCEPT !.exc = result.exc,
                      !.evaluated = Append(prev.evaluated, call)]
    ELSE [exc |-> "none",
          all_scores |-> prev.all_scores \o result.scores,
          evaluated |-> Append(prev.evaluated, call)]

\* the call of evaluate_output for the n-th prompt: on what trainer.generate
\* returned for it, or on the empty text without a model
EvaluationCall(found_skill, request, responses_generated, n) ==
    [output |-> IF HasModel(request) THEN responses_generated[n] ELSE <<>>,
     rubrics |-> found_skill.rubrics]

\* the two loops over the first n prompts
RECURSIVE EvaluationLoop(_, _, _, _)
EvaluationLoop(found_skill, request, responses_generated, n) ==
    IF n = 0
    THEN [exc |-> "none", all_scores |-> <<>>, evaluated |-> <<>>]
    ELSE LET call == EvaluationCall(found_skill, request, responses_generated, n)
         IN  EvaluationStep(
                EvaluationLoop(found_skill, request, responses_generated, n - 1),
                call, EvaluateOutput(call.output, call.rubrics))

\* sum(s.score for s in all_scores)
RECURSIVE SumScores(_)
SumScores(all_scores) ==
    IF all_scores = <<>> THEN Zero
    ELSE RatAdd(SumScores(SubSeq(all_scores, 1, Len(all_scores) - 1)),
                all_scores[Len(all_scores)].score)

\* the aggregate score of run_evaluation
AggregateOf(all_scores) ==
    IF all_scores # <<>>
    THEN RatDiv(SumScores(all_scores), Rat(Len(all_scores), 1)).val
    ELSE Zero

\* the response of run_evaluation after its loops, or the exception that
\* left them. The eval_id is a fresh uuid4.
EvaluationResult(request, loop) ==
    IF loop.exc # "none"
    THEN [ret |-> Raise(loop.exc), evaluated |-> loop.evaluated]
    ELSE [ret |-> Ok([eval_id |-> "uuid4",
                      skill_id |-> request.skill_id,
                      scores |-> loop.all_scores,
                      aggregate_score |-> AggregateOf(loop.all_scores)]),
          evaluated |-> loop.evaluated]

\* run_evaluation(request) with what load_skills and trainer.generate
\* return; gives the response, or the exception, and the calls of
\* evaluate_output made
RunEvaluation(skill_list, request, responses_generated) ==
    LET found == FindSkill(skill_list, request.skill_id)
    IN  IF found = None
        THEN [ret |-> Raise("HTTPException"), evaluated |-> <<>>]
        ELSE IF HasModel(request) /\ request.model_path[1] = MissingAdapter
        THEN [ret |-> Raise("OSError"), evaluated |-> <<>>]
        ELSE EvaluationResult(request,
                EvaluationLoop(found[1], request, responses_generated,
                               Len(EvalPrompts(found[1], request))))

\* the largest number of prompts of a request
MaxPrompts == 2

\* rubric items of weight 1 and 2
EndpointRubricItems ==
    {r \in EvalRubricItems :
        \/ r.name = <<"c","o","n","t","e","n","t","_","c","h","e","c","k">> /\ r.weight = One
        \/ r.name = <<"f","o","r","m","a","t","_","c","h","e","c","k">> /\ r.weight \in {One, Rat(2, 1)}}

EndpointRubricLists ==
    UNION {[1..n -> EndpointRubricItems] : n \in 0..MaxRubrics}

\* what load_skills returns: no skill, two skills, two skills of one id
EndpointSkillLists ==
    {<<>>}
    \cup {<<SkillOf(<<"p","d","f">>, <<"C","r","e","a","t","e"," ","r","e","p","o","r","t","s">>, rs), SkillOf(<<"W","e","b","-","A","P","I">>, <<>>, <<>>)>> :
            rs \in EndpointRubricLists}
    \cup {<<SkillOf(<<"p","d","f">>, <<>>, <<>>),
            SkillOf(<<"p","d","f">>, <<>>, <<CHOOSE r \in EndpointRubricItems : TRUE>>)>>}

EvalRequests ==
    [skill_id : {<<"p","d","f">>, <<"W","e","b","-","A","P","I">>, <<"n","o","p","e">>},
     prompts : {<<>>, <<<<"S","u","m","m","a","r","i","s","e"," ","t","h","i","s">>>>, <<<<"S","u","m","m","a","r","i","s","e"," ","t","h","i","s">>, <<"L","i","s","t"," ","t","h","e"," ","s","t","e","p","s">>>>},
     model_path : {None, <<<<>>>>, <<<<"a","d","a","p","t","e","r","s","/","p","d","f">>>>, <<MissingAdapter>>},
     num_samples : -1..MaxPrompts]

\* the texts trainer.generate returns
GeneratedTexts == {<<>>, <<"#"," ","T","i","t","l","e","\n","-"," ","a","\n">>, <<"t","h","e"," ","f","o","o"," ","i","s"," ","h","e","r","e">>}

(***************************************************************************)
(* The calls                                                               *)
(***************************************************************************)

VARIABLES op, pc, output, rubrics, text, ret,
          skill, num_samples, seed, random_state,
          calls,
          content,
          max_retries, method, endpoint, json, attempt, last_exception,
          requests, responses, sleeps,
          skills, eval_request, generated, evaluated,
          threads,
          hashes, pending, sets, procs, pushed, pops, returns

\* the arguments of the evaluator calls
scorerVars == <<output, rubrics, text>>

\* the arguments of generate_training_data and the process-wide generator
generatorVars == <<skill, num_samples, seed, random_state>>

\* the finished calls of a process, oldest first
sessionVars == <<calls>>

\* the document of the parser calls
parserVars == <<content>>

\* the client's setting, the arguments and locals of _request_with_retry,
\* and what the client has done: the requests issued, what each met, and the
\* seconds of each asyncio.sleep
clientVars ==
    <<max_retries, method, endpoint, json, attempt, last_exception,
      requests, responses, sleeps>>

\* what load_skills returns to run_evaluation, the request of the call, the
\* texts trainer.generate returns for the successive prompts, and the calls
\* of evaluate_output the handler has made: their outputs and rubrics
endpointVars == <<skills, eval_request, generated, evaluated>>

\* the concurrent calls of generate_training_data: for each thread its
\* arguments, its position and its locals
threadVars == <<threads>>

\* the Redis store of the job queue (the job hashes by key, the list
\* queue:pending with its left end first, the skill index sets by key), the
\* calls of the processes using the queue, and what has happened: the ids
\* in the order of their lpush, the rpop results in their order (each with
\* the list it met and the number of get_next_job calls returned before
\* it), and the results of get_next_job in the order of their return
queueVars == <<hashes, pending, sets, procs, pushed, pops, returns>>

vars ==
    <<op, pc, ret, scorerVars, generatorVars, sessionVars, parserVars,
      clientVars, endpointVars, threadVars, queueVars>>

\* no evaluator call is in progress
ScorerIdle == output = <<>> /\ rubrics = <<>> /\ text = <<>>

\* no generator call is in progress, the generator was never seeded
GeneratorIdle ==
    /\ skill = <<>>
    /\ num_samples = 0
    /\ seed = None
    /\ random_state = None

\* no call is recorded
SessionIdle == calls = <<>>

\* no parser call is in progress
ParserIdle == content = <<>>

\* no client exists
ClientIdle ==
    /\ max_retries = 0
    /\ method = ""
    /\ endpoint = ""
    /\ json = None
    /\ attempt = 0
    /\ last_exception = None
    /\ requests = <<>>
    /\ responses = <<>>
    /\ sleeps = <<>>

\* no request is being handled
EndpointIdle ==
    /\ skills = <<>>
    /\ eval_request = <<>>
    /\ generated = <<>>
    /\ evaluated = <<>>

\* no concurrent generator call exists
ThreadsIdle == threads = <<>>

\* no job queue exists
QueueIdle ==
    /\ hashes = <<>>
    /\ pending = <<>>
    /\ sets = <<>>
    /\ procs = <<>>
    /\ pushed = <<>>
    /\ pops = <<>>
    /\ returns = <<>>

NoReturn == [exc |-> "none"]

\* the arguments of a call of _score_rubric(output, rubric)
ScoreRubricInit ==
    /\ op = "_score_rubric"
    /\ pc = "call"
    /\ output \in Outputs
    /\ rubrics \in {<<RubricOf(d)>> : d \in Descriptions}
    /\ text = <<>>
    /\ ret = NoReturn
    /\ GeneratorIdle
    /\ SessionIdle
    /\ ParserIdle
    /\ ClientIdle
    /\ EndpointIdle
    /\ ThreadsIdle
    /\ QueueIdle

\* the argument of a call of _extract_keywords(text)
ExtractKeywordsInit ==
    /\ op = "_extract_keywords"
    /\ pc = "call"
    /\ output = <<>>
    /\ rubrics = <<>>
    /\ text \in Descriptions
    /\ ret = NoReturn
    /\ GeneratorIdle
    /\ SessionIdle
    /\ ParserIdle
    /\ ClientIdle
    /\ EndpointIdle
    /\ ThreadsIdle
    /\ QueueIdle

\* the arguments of a call of evaluate_output(output, rubrics)
EvaluateOutputInit ==
    /\ op = "evaluate_output"
    /\ pc = "call"
    /\ output \in EvalOutputs
    /\ rubrics \in EvalRubricLists
    /\ text = <<>>
    /\ ret = NoReturn
    /\ GeneratorIdle
    /\ SessionIdle
    /\ ParserIdle
    /\ ClientIdle
    /\ EndpointIdle
    /\ ThreadsIdle
    /\ QueueIdle

\* _score_rubric(output, rubric) runs and returns
ScoreRubricCall ==
    /\ op = "_score_rubric"
    /\ pc = "call"
    /\ pc' = "return"
    /\ ret' = ScoreRubric(output, rubrics[1])
    /\ UNCHANGED <<op, scorerVars, generatorVars, sessionVars, parserVars, clientVars, endpointVars, threadVars, queueVars>>

\* _extract_keywords(text) runs and returns
ExtractKeywordsCall ==
    /\ op = "_extract_keywords"
    /\ pc = "call"
    /\ pc' = "return"
    /\ ret' = Ok(ExtractKeywords(text))
    /\ UNCHANGED <<op, scorerVars, generatorVars, sessionVars, parserVars, clientVars, endpointVars, threadVars, queueVars>>

\* evaluate_output(output, rubrics) runs and returns
EvaluateOutputCall ==
    /\ op = "evaluate_output"
    /\ pc = "call"
    /\ pc' = "return"
    /\ ret' = EvaluateOutput(output, rubrics)
    /\ UNCHANGED <<op, scorerVars, generatorVars, sessionVars, parserVars, clientVars, endpointVars, threadVars, queueVars>>

Returned(f) == pc = "return" /\ op = f

ScoreInit == ScoreRubricInit \/ ExtractKeywordsInit

ScoreNext == ScoreRubricCall \/ ExtractKeywordsCall

ScoreSpec == ScoreInit /\ [][ScoreNext]_vars

EvalInit == EvaluateOutputInit

EvalNext == EvaluateOutputCall

EvalSpec == EvalInit /\ [][EvalNext]_vars

\* the arguments of a call of generate_training_data(skill, num_samples, seed)
\* and the state earlier calls left the process-wide generator in
GenerateTrainingDataInit ==
    /\ op = "generate_training_data"
    /\ pc = "call"
    /\ skill \in GenSkills
    /\ num_samples \in -1..MaxSamples
    /\ seed \in GenSeeds
    /\ random_state \in GenSeeds
    /\ ret = NoReturn
    /\ ScorerIdle
    /\ SessionIdle
    /\ ParserIdle
    /\ ClientIdle
    /\ EndpointIdle
    /\ ThreadsIdle
    /\ QueueIdle

\* generate_training_data(skill, num_samples, seed) runs and returns
GenerateTrainingDataCall ==
    /\ op = "generate_training_data"
    /\ pc = "call"
    /\ pc' = "return"
    /\ LET result == GenerateTrainingData(skill, num_samples, seed, random_state)
       IN  /\ ret' = Ok(result.samples)
           /\ random_state' = result.random_state
    /\ UNCHANGED <<op, skill, num_samples, seed, scorerVars, sessionVars, parserVars, clientVars, endpointVars, threadVars, queueVars>>

\* the argument of a call of _extract_constraints(skill)
ExtractConstraintsInit ==
    /\ op = "_extract_constraints"
    /\ pc = "call"
    /\ skill \in GenSkills
    /\ num_samples = 0
    /\ seed = None
    /\ random_state = None
    /\ ret = NoReturn
    /\ ScorerIdle
    /\ SessionIdle
    /\ ParserIdle
    /\ ClientIdle
    /\ EndpointIdle
    /\ ThreadsIdle
    /\ QueueIdle

\* _extract_constraints(skill) runs and returns
ExtractConstraintsCall ==
    /\ op = "_extract_constraints"
    /\ pc = "call"
    /\ pc' = "return"
    /\ ret' = Ok(ExtractConstraints(skill))
    /\ UNCHANGED <<op, generatorVars, scorerVars, sessionVars, parserVars, clientVars, endpointVars, threadVars, queueVars>>

GenInit == GenerateTrainingDataInit \/ ExtractConstraintsInit

GenNext == GenerateTrainingDataCall \/ ExtractConstraintsCall

GenSpec == GenInit /\ [][GenNext]_vars

\* a process that has made no call yet
SessionInit ==
    /\ op = "session"
    /\ pc = "idle"
    /\ ret = NoReturn
    /\ ScorerIdle
    /\ GeneratorIdle
    /\ SessionIdle
    /\ ParserIdle
    /\ ClientIdle
    /\ EndpointIdle
    /\ ThreadsIdle
    /\ QueueIdle

\* the process calls generate_training_data(skill, num_samples, seed)
SessionGenerateTrainingData ==
    /\ op = "session"
    /\ Len(calls) < MaxCalls
    /\ \E sk \in SessionSkills, n \in SessionSamples, sd \in GenSeeds :
        LET result == GenerateTrainingData(sk, n, sd, random_state)
        IN  /\ random_state' = result.random_state
            /\ calls' = Append(calls, [op |-> "generate_training_data",
                                       args |-> <<sk, n, sd>>,
                                       result |-> result.samples])
    /\ UNCHANGED <<op, pc, ret, scorerVars, skill, num_samples, seed, parserVars, clientVars, endpointVars, threadVars, queueVars>>

\* the process calls evaluate_output(output, rubrics)
SessionEvaluateOutput ==
    /\ op = "session"
    /\ Len(calls) < MaxCalls
    /\ \E out \in SessionOutputs, rs \in SessionRubricLists :
        calls' = Append(calls, [op |-> "evaluate_output",
                                args |-> <<out, rs>>,
                                result |-> EvaluateOutput(out, rs)])
    /\ UNCHANGED <<op, pc, ret, scorerVars, generatorVars, parserVars, clientVars, endpointVars, threadVars, queueVars>>

\* the process calls parse_skill on a file of this content, with a rubric
\* list that outlives the call: the rubrics of the earlier parses come first
SessionParseSkillAccumulating ==
    /\ op = "session"
    /\ Len(calls) < MaxCalls
    /\ \E doc \in SessionDocuments :
        LET earlier == SelectSeq(calls, LAMBDA call : call.op = "parse_skill")
            kept == IF earlier = <<>> THEN <<>>
                    ELSE earlier[Len(earlier)].result.rubrics
        IN  calls' = Append(calls, [op |-> "parse_skill",
                                    args |-> <<doc>>,
                                    result |-> [description |-> ExtractDescription(doc),
                                                rubrics |-> kept \o ExtractRubrics(doc)]])
    /\ UNCHANGED <<op, pc, ret, scorerVars, generatorVars, parserVars, clientVars, endpointVars, threadVars, queueVars>>

\* the process calls parse_skill on a file of this content
SessionParseSkill ==
    /\ op = "session"
    /\ Len(calls) < MaxCalls
    /\ \E doc \in SessionDocuments :
        calls' = Append(calls, [op |-> "parse_skill",
                                args |-> <<doc>>,
                                result |-> ParseSkill(doc)])
    /\ UNCHANGED <<op, pc, ret, scorerVars, generatorVars, parserVars, clientVars, endpointVars, threadVars, queueVars>>

SessionNext ==
    SessionGenerateTrainingData \/ SessionEvaluateOutput \/ SessionParseSkill

SessionSpec == SessionInit /\ [][SessionNext]_vars

\* the argument of a call of _split_sections(content)
SplitSectionsInit ==
    /\ op = "_split_sections"
    /\ pc = "call"
    /\ content \in Documents
    /\ ret = NoReturn
    /\ ScorerIdle
    /\ GeneratorIdle
    /\ SessionIdle
    /\ ClientIdle
    /\ EndpointIdle
    /\ ThreadsIdle
    /\ QueueIdle

\* the argument of a call of _extract_description(content)
ExtractDescriptionInit ==
    /\ op = "_extract_description"
    /\ pc = "call"
    /\ content \in Documents
    /\ ret = NoReturn
    /\ ScorerIdle
    /\ GeneratorIdle
    /\ SessionIdle
    /\ ClientIdle
    /\ EndpointIdle
    /\ ThreadsIdle
    /\ QueueIdle

\* the argument of a call of extract_rubrics(content)
ExtractRubricsInit ==
    /\ op = "extract_rubrics"
    /\ pc = "call"
    /\ content \in Documents
    /\ ret = NoReturn
    /\ ScorerIdle
    /\ GeneratorIdle
    /\ SessionIdle
    /\ ClientIdle
    /\ EndpointIdle
    /\ ThreadsIdle
    /\ QueueIdle

\* _split_sections(content) runs and returns
SplitSectionsCall ==
    /\ op = "_split_sections"
    /\ pc = "call"
    /\ pc' = "return"
    /\ ret' = Ok(SplitSections(content))
    /\ UNCHANGED <<op, scorerVars, generatorVars, sessionVars, parserVars, clientVars, endpointVars, threadVars, queueVars>>

\* _extract_description(content) runs and returns
ExtractDescriptionCall ==
    /\ op = "_extract_description"
    /\ pc = "call"
    /\ pc' = "return"
    /\ ret' = Ok(ExtractDescription(content))
    /\ UNCHANGED <<op, scorerVars, generatorVars, sessionVars, parserVars, clientVars, endpointVars, threadVars, queueVars>>

\* extract_rubrics(content) runs and returns
ExtractRubricsCall ==
    /\ op = "extract_rubrics"
    /\ pc = "call"
    /\ pc' = "return"
    /\ ret' = Ok(ExtractRubrics(content))
    /\ UNCHANGED <<op, scorerVars, generatorVars, sessionVars, parserVars, clientVars, endpointVars, threadVars, queueVars>>

ParseInit == SplitSectionsInit \/ ExtractDescriptionInit \/ ExtractRubricsInit

ParseNext == SplitSectionsCall \/ ExtractDescriptionCall \/ ExtractRubricsCall

ParseSpec == ParseInit /\ [][ParseNext]_vars

\* a client with its max_retries that has issued nothing yet, at the first
\* attempt of _request_with_retry for this request
ClientStart(request) ==
    /\ pc = "attempt"
    /\ max_retries \in 0..MaxRetries
    /\ method = request.method
    /\ endpoint = request.endpoint
    /\ json = request.json
    /\ attempt = 0
    /\ last_exception = None
    /\ requests = <<>>
    /\ responses = <<>>
    /\ sleeps = <<>>
    /\ ret = NoReturn
    /\ ScorerIdle
    /\ GeneratorIdle
    /\ SessionIdle
    /\ ParserIdle
    /\ EndpointIdle
    /\ ThreadsIdle
    /\ QueueIdle

\* the arguments of a call of _request_with_retry(method, endpoint, json)
RequestWithRetryInit ==
    /\ op = "_request_with_retry"
    /\ \E request \in {HealthRequest, CompletionRequest} : ClientStart(request)

\* a call of health_check(), at its call of _request_with_retry("GET", "/health")
HealthCheckInit ==
    /\ op = "health_check"
    /\ ClientStart(HealthRequest)

\* where control goes when _request_with_retry returns or raises
AfterRetry == IF op = "_request_with_retry" THEN "return" ELSE "done"

\* an attempt of the loop issues the request and meets this response
Issue(response) ==
    /\ pc = "attempt"
    /\ attempt < max_retries
    /\ requests' = Append(requests, [method |-> method, endpoint |-> endpoint,
                                     json |-> json])
    /\ responses' = Append(responses, response)

\* the attempt succeeds: _request_with_retry returns response.json()
AttemptReturnsJson ==
    /\ Issue("json")
    /\ ret' = Ok("json")
    /\ pc' = AfterRetry
    /\ UNCHANGED <<op, max_retries, method, endpoint, json, attempt,
                   last_exception, sleeps>>
    /\ UNCHANGED <<scorerVars, generatorVars, sessionVars, parserVars, endpointVars, threadVars, queueVars>>

\* the attempt gets a 2xx response and response.json() raises: the exception
\* is no httpx.HTTPError and leaves _request_with_retry
AttemptRaisesDecodeError ==
    /\ Issue("not_json")
    /\ ret' = Raise("JSONDecodeError")
    /\ pc' = AfterRetry
    /\ UNCHANGED <<op, max_retries, method, endpoint, json, attempt,
                   last_exception, sleeps>>
    /\ UNCHANGED <<scorerVars, generatorVars, sessionVars, parserVars, endpointVars, threadVars, queueVars>>

\* the attempt fails with an httpx.HTTPError: it is kept, and the loop goes to
\* its sleep or, after the last attempt, on
AttemptFails ==
    /\ \E e \in HTTPErrors :
        /\ Issue(e)
        /\ last_exception' = <<e>>
    /\ IF attempt < max_retries - 1
       THEN pc' = "sleep" /\ attempt' = attempt
       ELSE pc' = "attempt" /\ attempt' = attempt + 1
    /\ UNCHANGED <<op, ret, max_retries, method, endpoint, json, sleeps>>
    /\ UNCHANGED <<scorerVars, generatorVars, sessionVars, parserVars, endpointVars, threadVars, queueVars>>

\* await asyncio.sleep(backoff), then the next attempt
Sleep ==
    /\ pc = "sleep"
    /\ sleeps' = Append(sleeps, Backoff(attempt))
    /\ attempt' = attempt + 1
    /\ pc' = "attempt"
    /\ UNCHANGED <<op, ret, max_retries, method, endpoint, json,
                   last_exception, requests, responses>>
    /\ UNCHANGED <<scorerVars, generatorVars, sessionVars, parserVars, endpointVars, threadVars, queueVars>>

\* the loop is over: raise last_exception
RetriesExhausted ==
    /\ pc = "attempt"
    /\ attempt >= max_retries
    /\ ret' = RaiseLast(last_exception)
    /\ pc' = AfterRetry
    /\ UNCHANGED <<op, max_retries, method, endpoint, json, attempt,
                   last_exception, requests, responses, sleeps>>
    /\ UNCHANGED <<scorerVars, generatorVars, sessionVars, parserVars, endpointVars, threadVars, queueVars>>

\* health_check: the request to /health returned, return True
HealthCheckHealthy ==
    /\ op = "health_check"
    /\ pc = "done"
    /\ endpoint = HealthRequest.endpoint
    /\ ret.exc = "none"
    /\ ret' = Ok(TRUE)
    /\ pc' = "return"
    /\ UNCHANGED <<op, scorerVars, generatorVars, sessionVars, parserVars,
                   clientVars, endpointVars, threadVars, queueVars>>

\* health_check giving up when the request to /health raised an
\* httpx.HTTPError, without the completion request
HealthCheckNoFallback ==
    /\ op = "health_check"
    /\ pc = "done"
    /\ endpoint = HealthRequest.endpoint
    /\ ret.exc \in HTTPErrors
    /\ ret' = Ok(FALSE)
    /\ pc' = "return"
    /\ UNCHANGED <<op, scorerVars, generatorVars, sessionVars, parserVars,
                   clientVars, endpointVars, threadVars, queueVars>>

\* health_check: the request to /health raised an httpx.HTTPError, call
\* complete("test", max_tokens=1), which calls _request_with_retry
HealthCheckFallback ==
    /\ op = "health_check"
    /\ pc = "done"
    /\ endpoint = HealthRequest.endpoint
    /\ ret.exc \in HTTPErrors
    /\ method' = CompletionRequest.method
    /\ endpoint' = CompletionRequest.endpoint
    /\ json' = CompletionRequest.json
    /\ attempt' = 0
    /\ last_exception' = None
    /\ ret' = NoReturn
    /\ pc' = "attempt"
    /\ UNCHANGED <<op, max_retries, requests, responses, sleeps>>
    /\ UNCHANGED <<scorerVars, generatorVars, sessionVars, parserVars, endpointVars, threadVars, queueVars>>

\* health_check: the request to /health raised an exception that is no
\* httpx.HTTPError; no except clause takes it and it leaves health_check
HealthCheckRaises ==
    /\ op = "health_check"
    /\ pc = "done"
    /\ endpoint = HealthRequest.endpoint
    /\ ret.exc \notin HTTPErrors \cup {"none"}
    /\ pc' = "return"
    /\ UNCHANGED <<op, ret, scorerVars, generatorVars, sessionVars, parserVars,
                   clientVars, endpointVars, threadVars, queueVars>>

\* health_check: complete returned (True) or raised any exception (False)
HealthCheckCompletion ==
    /\ op = "health_check"
    /\ pc = "done"
    /\ endpoint = CompletionRequest.endpoint
    /\ ret' = Ok(ret.exc = "none")
    /\ pc' = "return"
    /\ UNCHANGED <<op, scorerVars, generatorVars, sessionVars, parserVars,
                   clientVars, endpointVars, threadVars, queueVars>>

ClientInit == RequestWithRetryInit \/ HealthCheckInit

ClientNext ==
    \/ AttemptReturnsJson
    \/ AttemptRaisesDecodeError
    \/ AttemptFails
    \/ Sleep
    \/ RetriesExhausted
    \/ HealthCheckHealthy
    \/ HealthCheckFallback
    \/ HealthCheckRaises
    \/ HealthCheckCompletion

ClientSpec == ClientInit /\ [][ClientNext]_vars

\* a call of run_evaluation(request), with what load_skills will return and
\* what trainer.generate will return for the prompts
RunEvaluationInit ==
    /\ op = "run_evaluation"
    /\ pc = "call"
    /\ skills \in EndpointSkillLists
    /\ eval_request \in EvalRequests
    /\ generated \in [1..MaxPrompts -> GeneratedTexts]
    /\ evaluated = <<>>
    /\ ret = NoReturn
    /\ ScorerIdle
    /\ GeneratorIdle
    /\ SessionIdle
    /\ ParserIdle
    /\ ClientIdle
    /\ ThreadsIdle
    /\ QueueIdle

\* run_evaluation(request) runs and returns or raises
RunEvaluationCall ==
    /\ op = "run_evaluation"
    /\ pc = "call"
    /\ pc' = "return"
    /\ \E result \in {RunEvaluation(skills, eval_request, generated)} :
           /\ ret' = result.ret
           /\ evaluated' = result.evaluated
    /\ UNCHANGED <<op, skills, eval_request, generated>>
    /\ UNCHANGED <<scorerVars, generatorVars, sessionVars, parserVars, clientVars, threadVars, queueVars>>

EndpointInit == RunEvaluationInit

EndpointNext == RunEvaluationCall

EndpointSpec == EndpointInit /\ [][EndpointNext]_vars

\* ---------------------------------------------------------------------
\* Two threads in generate_training_data (services/data_generator.py)
\* ---------------------------------------------------------------------

MaxThreadSamples == 2

Threads == {1, 2}

ThreadSkills ==
    {SkillOf(<<"p","d","f">>, <<>>, <<>>),
     SkillOf(<<"W","e","b","-","A","P","I">>,
             <<"C","r","e","a","t","e"," ","a","n","d"," ","B","U","I","L","D"," ","r","e","p","o","r","t","s">>,
             <<JsonRubric, IncludeRubric>>)}

\* a call that has bound its arguments and run nothing yet
ThreadCalls ==
    [skill : ThreadSkills, num_samples : 0..MaxThreadSamples, seed : GenSeeds,
     pc : {"seed"}, triggers : {<<>>}, constraints : {<<>>}, i : {0},
     samples : {<<>>}]

\* the loop body drawing its index from the process-wide generator
LoopBodyDrawing(skill_, triggers, constraints, i) ==
    [prompt |-> GeneratePrompt(skill_, triggers,
                               i + (IF random_state = <<7>> THEN 1 ELSE 0)),
     response |-> GenerateResponse(skill_, constraints, i)]

\* the body of the loop (lines 34-44): the sample of index i
LoopBody(skill_, triggers, constraints, i) ==
    [prompt |-> GeneratePrompt(skill_, triggers, i),
     response |-> GenerateResponse(skill_, constraints, i)]

ThreadsInit ==
    /\ op = "generate_training_data"
    /\ pc = "threads"
    /\ threads \in [Threads -> ThreadCalls]
    /\ skill = <<>>
    /\ num_samples = 0
    /\ seed = None
    /\ random_state \in GenSeeds
    /\ ret = NoReturn
    /\ ScorerIdle
    /\ SessionIdle
    /\ ParserIdle
    /\ ClientIdle
    /\ EndpointIdle
    /\ QueueIdle

\* thread t runs lines 25-26: random.seed(seed) for a seed that is not None
ThreadSeed(t) ==
    /\ pc = "threads"
    /\ threads[t].pc = "seed"
    /\ random_state' = IF threads[t].seed # None THEN threads[t].seed
                       ELSE random_state
    /\ threads' = [threads EXCEPT ![t].pc = "extract"]
    /\ UNCHANGED <<op, pc, ret, skill, num_samples, seed, scorerVars, sessionVars, parserVars, clientVars, endpointVars, queueVars>>

\* thread t runs lines 28-32: the triggers and constraints of its skill
ThreadExtract(t) ==
    /\ pc = "threads"
    /\ threads[t].pc = "extract"
    /\ threads' = [threads EXCEPT ![t].pc = "loop",
                                  ![t].triggers = ExtractTriggers(threads[t].skill),
                                  ![t].constraints = ExtractConstraints(threads[t].skill)]
    /\ UNCHANGED <<op, pc, ret, generatorVars, scorerVars, sessionVars, parserVars, clientVars, endpointVars, queueVars>>

\* thread t runs one iteration of the loop of lines 34-44
ThreadLoop(t) ==
    /\ pc = "threads"
    /\ threads[t].pc = "loop"
    /\ threads[t].i < threads[t].num_samples
    /\ threads' = [threads EXCEPT
            ![t].samples = Append(@, LoopBody(threads[t].skill, threads[t].triggers,
                                              threads[t].constraints, threads[t].i)),
            ![t].i = @ + 1]
    /\ UNCHANGED <<op, pc, ret, generatorVars, scorerVars, sessionVars, parserVars, clientVars, endpointVars, queueVars>>

\* thread t leaves the loop and returns its samples (line 46)
ThreadReturn(t) ==
    /\ pc = "threads"
    /\ threads[t].pc = "loop"
    /\ threads[t].i >= threads[t].num_samples
    /\ threads' = [threads EXCEPT ![t].pc = "return"]
    /\ UNCHANGED <<op, pc, ret, generatorVars, scorerVars, sessionVars, parserVars, clientVars, endpointVars, queueVars>>

ThreadsNext ==
    \E t \in Threads :
        \/ ThreadSeed(t)
        \/ ThreadExtract(t)
        \/ ThreadLoop(t)
        \/ ThreadReturn(t)

ThreadsSpec == ThreadsInit /\ [][ThreadsNext]_vars

\* ---------------------------------------------------------------------
\* services/queue.py: JobQueue on a Redis store
\* ---------------------------------------------------------------------
\* A hash is a function from its field names to their values. Of the fields
\* of a job hash the model keeps job_id, skill_id, status and config; the
\* progress, the error and the timestamps are read by no operation here.
\* connect() creates the client once and changes nothing in the store.

MaxJobs == 2

MaxPops == 3

\* the values of str(uuid.uuid4())
UuidList ==
    <<<<"1","b","9","d","6","b","c","d","-","b","b","f","d","-","4","b","2","d","-","9","b","5","d","-","a","b","8","d","f","b","b","d","4","b","e","d">>,
      <<"9","c","8","5","8","9","0","1","-","8","a","5","7","-","4","7","9","1","-","8","1","f","e","-","4","c","4","5","5","b","0","9","9","b","c","9">>,
      <<"e","4","e","a","a","a","f","2","-","d","1","4","2","-","1","1","e","1","-","b","3","e","4","-","0","8","0","0","2","7","6","2","0","c","d","d">>,
      <<"3","f","2","5","0","4","e","0","-","4","f","8","9","-","4","1","d","3","-","9","a","0","c","-","0","3","0","5","e","8","2","c","3","3","0","1">>>>

Uuids == {UuidList[k] : k \in 1..MaxJobs}

QueueSkillIds == {<<"p","d","f">>, <<"w","e","b">>, <<>>}

Configs == {<<>>, <<<<<<"e","p","o","c","h","s">>, 3>>>>}

StatusFilters == {None, <<"pending">>, <<"running">>}

Limits == {1, 100}

\* json.dumps of a dict of integers
JsonDumps(config) ==
    <<"{">> \o Join(<<",", " ">>,
                    [k \in DOMAIN config |->
                        <<"\"">> \o config[k][1] \o <<"\"", ":", " ">>
                        \o Decimal(config[k][2])])
    \o <<"}">>

\* json.loads of a text json.dumps has written
JsonLoads(config_str) == CHOOSE config \in Configs : JsonDumps(config) = config_str

\* f"job:{job_id}"
JobKey(job_id) == <<"j","o","b",":">> \o job_id

\* f"skill:{skill_id}:jobs"
SkillKey(skill_id) == <<"s","k","i","l","l",":">> \o skill_id \o <<":","j","o","b","s">>

\* HSET key field value [field value ...]
HSet(store, key, mapping) ==
    [k \in DOMAIN store \cup {key} |->
        IF k # key THEN store[k]
        ELSE IF key \in DOMAIN store
        THEN [f \in DOMAIN store[key] \cup DOMAIN mapping |->
                IF f \in DOMAIN mapping THEN mapping[f] ELSE store[key][f]]
        ELSE mapping]

\* HGETALL key: the empty dict for a missing key
HGetAll(store, key) == IF key \in DOMAIN store THEN store[key] ELSE <<>>

\* HGET key field: None for a missing key or field
HGet(store, key, field) ==
    IF key \in DOMAIN store /\ field \in DOMAIN store[key]
    THEN <<store[key][field]>>
    ELSE None

\* SADD key member
SAdd(store, key, member) ==
    [k \in DOMAIN store \cup {key} |->
        IF k # key THEN store[k]
        ELSE IF key \in DOMAIN store THEN store[key] \cup {member}
        ELSE {member}]

\* SMEMBERS key: the empty set for a missing key
SMembers(store, key) == IF key \in DOMAIN store THEN store[key] ELSE {}

\* SCAN with match="job:*" until the cursor is 0 again: the keys of the
\* store that start with job: (lists and sets have other prefixes)
ScanJobKeys(store) == {key \in DOMAIN store : StartsWith(key, <<"j","o","b",":">>)}

\* the loop of lines 166-169 over the scanned keys
ScannedJobIds(keys) ==
    {SubSeq(key, 5, Len(key)) :
        key \in {k \in keys : /\ StartsWith(k, <<"j","o","b",":">>)
                              /\ Contains(<<":">>, SubSeq(k, 5, Len(k)))}}

\* list(job_ids): the members of a set in any order
Orders(job_ids) ==
    {order \in [1..Cardinality(job_ids) -> job_ids] :
        \A i, j \in DOMAIN order : order[i] = order[j] => i = j}

\* get_status (lines 91-101): TrainingJob(**job_data) without the config, or
\* None
GetStatusOf(store, job_id) ==
    IF HGetAll(store, JobKey(job_id)) = <<>> THEN None
    ELSE <<[f \in DOMAIN HGetAll(store, JobKey(job_id)) \ {"config"} |->
                HGetAll(store, JobKey(job_id))[f]]>>

\* lines 178-185: the jobs list after the job fetched for one id
JobsWith(jobs, job, status) ==
    IF job = None THEN jobs
    ELSE IF status # None /\ job[1]["status"] # status[1] THEN jobs
    ELSE Append(jobs, job[1])

\* a process between two calls
IdleProc ==
    [op |-> "", pc |-> "idle", skill_id |-> <<>>, status |-> None, limit |-> 0,
     job_id |-> <<>>, config |-> <<>>, config_str |-> None, job_ids |-> <<>>,
     jobs |-> <<>>, ret |-> None]

\* the process after its call of operation op has returned result
ReturnedProc(operation, result) ==
    [IdleProc EXCEPT !.op = operation, !.ret = result]

QueueProcs == {1, 2}

\* a JobQueue on an empty store, used by the processes of procs_
QueueStart(procs_) ==
    /\ op = "JobQueue"
    /\ pc = "queue"
    /\ ret = NoReturn
    /\ hashes = <<>>
    /\ pending = <<>>
    /\ sets = <<>>
    /\ procs = [p \in procs_ |-> IdleProc]
    /\ pushed = <<>>
    /\ pops = <<>>
    /\ returns = <<>>
    /\ ScorerIdle
    /\ GeneratorIdle
    /\ SessionIdle
    /\ ParserIdle
    /\ ClientIdle
    /\ EndpointIdle
    /\ ThreadsIdle

\* concurrent clients and workers
QueueInit == QueueStart(QueueProcs)

\* one caller
QueueSerialInit == QueueStart({1})

\* what no queue operation changes
QueueFrame ==
    UNCHANGED <<op, pc, ret, scorerVars, generatorVars, sessionVars, parserVars,
                clientVars, endpointVars, threadVars>>

\* submit_job(skill_id, config) up to its first store command (lines 52-69):
\* a fresh uuid4 and the HSET of the job hash with status pending
SubmitJobHset(p) ==
    /\ pc = "queue"
    /\ procs[p].pc = "idle"
    /\ \E skill_id \in QueueSkillIds, config \in Configs,
          job_id \in {u \in Uuids : JobKey(u) \notin DOMAIN hashes} :
            /\ hashes' = HSet(hashes, JobKey(job_id),
                              [job_id |-> job_id, skill_id |-> skill_id,
                               status |-> "pending",
                               config |-> JsonDumps(config)])
            /\ procs' = [procs EXCEPT ![p] =
                            [IdleProc EXCEPT !.op = "submit_job", !.pc = "lpush",
                                             !.skill_id = skill_id,
                                             !.config = config,
                                             !.job_id = job_id]]
    /\ UNCHANGED <<pending, sets, pushed, pops, returns>>
    /\ QueueFrame

\* line 72 pushing on the right end, the end RPOP takes from
SubmitJobRpush(p) ==
    /\ pc = "queue"
    /\ procs[p].pc = "lpush"
    /\ pending' = Append(pending, procs[p].job_id)
    /\ pushed' = Append(pushed, procs[p].job_id)
    /\ procs' = [procs EXCEPT ![p].pc = "sadd"]
    /\ UNCHANGED <<hashes, sets, pops, returns>>
    /\ QueueFrame

\* line 72: LPUSH queue:pending job_id
SubmitJobLpush(p) ==
    /\ pc = "queue"
    /\ procs[p].pc = "lpush"
    /\ pending' = <<procs[p].job_id>> \o pending
    /\ pushed' = Append(pushed, procs[p].job_id)
    /\ procs' = [procs EXCEPT ![p].pc = "sadd"]
    /\ UNCHANGED <<hashes, sets, pops, returns>>
    /\ QueueFrame

\* lines 75-77: SADD skill:{skill_id}:jobs job_id, and the return of the id
SubmitJobSadd(p) ==
    /\ pc = "queue"
    /\ procs[p].pc = "sadd"
    /\ sets' = SAdd(sets, SkillKey(procs[p].skill_id), procs[p].job_id)
    /\ procs' = [procs EXCEPT ![p] = ReturnedProc("submit_job", procs[p].job_id)]
    /\ UNCHANGED <<hashes, pending, pushed, pops, returns>>
    /\ QueueFrame

\* get_next_job up to its first store command (lines 196-201): RPOP
\* queue:pending, and the return of None for no id
GetNextJobRpop(p) ==
    /\ pc = "queue"
    /\ procs[p].pc = "idle"
    /\ Len(pops) < MaxPops
    /\ IF pending = <<>> \/ pending[Len(pending)] = <<>>
       THEN /\ pending' = SubSeq(pending, 1, Len(pending) - 1)
            /\ pops' = Append(pops, [job_id |-> IF pending = <<>> THEN None
                                                ELSE <<pending[Len(pending)]>>,
                                     pending |-> pending,
                                     returned |-> Len(returns)])
            /\ returns' = Append(returns, None)
            /\ procs' = [procs EXCEPT ![p] = ReturnedProc("get_next_job", None)]
       ELSE /\ pending' = SubSeq(pending, 1, Len(pending) - 1)
            /\ pops' = Append(pops, [job_id |-> <<pending[Len(pending)]>>,
                                     pending |-> pending,
                                     returned |-> Len(returns)])
            /\ returns' = returns
            /\ procs' = [procs EXCEPT ![p] =
                            [IdleProc EXCEPT !.op = "get_next_job", !.pc = "hget",
                                             !.job_id = pending[Len(pending)]]]
    /\ UNCHANGED <<hashes, sets, pushed>>
    /\ QueueFrame

\* lines 204-207: HGET job:{job_id} config
GetNextJobHget(p) ==
    /\ pc = "queue"
    /\ procs[p].pc = "hget"
    /\ procs' = [procs EXCEPT
            ![p].config_str = HGet(hashes, JobKey(procs[p].job_id), "config"),
            ![p].pc = "update"]
    /\ UNCHANGED <<hashes, pending, sets, pushed, pops, returns>>
    /\ QueueFrame

\* lines 207-212: the parsed config, update_status(job_id, running) with its
\* HSET of line 131, and the return of (job_id, config)
GetNextJobUpdate(p) ==
    /\ pc = "queue"
    /\ procs[p].pc = "update"
    /\ hashes' = HSet(hashes, JobKey(procs[p].job_id), [status |-> "running"])
    /\ \E result \in {<<[job_id |-> procs[p].job_id,
                         config |-> IF procs[p].config_str # None
                                       /\ procs[p].config_str[1] # <<>>
                                    THEN JsonLoads(procs[p].config_str[1])
                                    ELSE <<>>]>>} :
            /\ returns' = Append(returns, result)
            /\ procs' = [procs EXCEPT ![p] = ReturnedProc("get_next_job", result)]
    /\ UNCHANGED <<pending, sets, pushed, pops>>
    /\ QueueFrame

\* get_status(job_id) (lines 89-101): one HGETALL
GetStatus(p) ==
    /\ pc = "queue"
    /\ procs[p].pc = "idle"
    /\ \E job_id \in Uuids :
            procs' = [procs EXCEPT ![p] =
                        [ReturnedProc("get_status", GetStatusOf(hashes, job_id))
                            EXCEPT !.job_id = job_id]]
    /\ UNCHANGED <<hashes, pending, sets, pushed, pops, returns>>
    /\ QueueFrame

\* list_jobs(skill_id, status, limit) up to its first call of get_status
\* (lines 150-176): the ids of the skill index or of the scanned keys, in
\* the order list(job_ids) gives them, cut to limit; no id, no fetch
ListJobsIds(p) ==
    /\ pc = "queue"
    /\ procs[p].pc = "idle"
    /\ \E skill_id \in {None} \cup {<<s>> : s \in QueueSkillIds},
          status \in StatusFilters, limit \in Limits :
         \E order \in Orders(IF skill_id # None /\ skill_id[1] # <<>>
                             THEN SMembers(sets, SkillKey(skill_id[1]))
                             ELSE ScannedJobIds(ScanJobKeys(hashes))) :
            procs' = [procs EXCEPT ![p] =
                        [IdleProc EXCEPT !.op = "list_jobs",
                                         !.pc = IF SliceTo(order, limit) = <<>>
                                                THEN "idle" ELSE "fetch",
                                         !.skill_id = skill_id,
                                         !.status = status,
                                         !.limit = limit,
                                         !.job_ids = SliceTo(order, limit)]]
    /\ UNCHANGED <<hashes, pending, sets, pushed, pops, returns>>
    /\ QueueFrame

\* one iteration of the loop of lines 176-185, and the return of line 187
\* after the last one
ListJobsFetch(p) ==
    /\ pc = "queue"
    /\ procs[p].pc = "fetch"
    /\ \E jobs \in {JobsWith(procs[p].jobs,
                             GetStatusOf(hashes, Head(procs[p].job_ids)),
                             procs[p].status)} :
            procs' = [procs EXCEPT
                        ![p].job_ids = Tail(@),
                        ![p].jobs = IF Len(procs[p].job_ids) = 1 THEN <<>> ELSE jobs,
                        ![p].ret = IF Len(procs[p].job_ids) = 1 THEN jobs ELSE None,
                        ![p].pc = IF Len(procs[p].job_ids) = 1 THEN "idle" ELSE "fetch"]
    /\ UNCHANGED <<hashes, pending, sets, pushed, pops, returns>>
    /\ QueueFrame

QueueNext ==
    \E p \in DOMAIN procs :
        \/ SubmitJobHset(p)
        \/ SubmitJobLpush(p)
        \/ SubmitJobSadd(p)
        \/ GetNextJobRpop(p)
        \/ GetNextJobHget(p)
        \/ GetNextJobUpdate(p)
        \/ GetStatus(p)

QueueSpec == QueueInit /\ [][QueueNext]_vars

QueueSerialNext ==
    \E p \in DOMAIN procs :
        \/ SubmitJobHset(p)
        \/ SubmitJobLpush(p)
        \/ SubmitJobSadd(p)
        \/ GetNextJobRpop(p)
        \/ GetNextJobHget(p)
        \/ GetNextJobUpdate(p)
        \/ GetStatus(p)
        \/ ListJobsIds(p)
        \/ ListJobsFetch(p)

QueueSerialSpec == QueueSerialInit /\ [][QueueSerialNext]_vars

Init == ScoreInit \/ EvalInit

Next == ScoreNext \/ EvalNext

Spec == Init /\ [][Next]_vars

(***************************************************************************)
(* Properties                                                              *)
(***************************************************************************)

InUnitInterval(q) == RatLE(Zero, q) /\ RatLE(q, One)

InclusionTriggered(d) ==
    Contains(MustIncludeLit, d) \/ Contains(ShouldIncludeLit, d)

\* sum of the weights of rubrics[1..n]
RECURSIVE TotalWeight(_, _)
TotalWeight(rs, n) ==
    IF n = 0 THEN Zero ELSE RatAdd(TotalWeight(rs, n - 1), rs[n].weight)

\* sum of score_i * weight_i over the first n scores
RECURSIVE WeightedScoreSum(_, _, _)
WeightedScoreSum(scores, rs, n) ==
    IF n = 0 THEN Zero
    ELSE RatAdd(WeightedScoreSum(scores, rs, n - 1),
                RatMul(scores[n].score, rs[n].weight))

AllWeightsPositive(rs) == \A i \in DOMAIN rs : RatLT(Zero, rs[i].weight)

\* the number of keywords that occur, case ignored, in the output
MatchedCount(kws, out) ==
    Cardinality({i \in DOMAIN kws : Contains(Lower(kws[i]), Lower(out))})

\* the number of whitespace-delimited tokens of a text
WordCount(s) ==
    Cardinality({i \in 1..Len(s) :
        s[i] \notin Whitespace /\ (i = 1 \/ s[i - 1] \in Whitespace)})

\* the texts between the 1st and 2nd, 3rd and 4th, ... double quote
QuotedSubstrings(s) ==
    LET qs == {i \in 1..Len(s) : s[i] = "\""}
        opens == {a \in qs : /\ Cardinality({q \in qs : q < a}) % 2 = 0
                             /\ \E b \in qs : b > a}
        OpenAt(k) == CHOOSE a \in opens : Cardinality({q \in opens : q < a}) = k - 1
        CloseOf(a) == CHOOSE b \in qs : b > a /\ \A c \in qs : c > a => b <= c
    IN  [k \in 1..Cardinality(opens) |->
            SubSeq(s, OpenAt(k) + 1, CloseOf(OpenAt(k)) - 1)]

\* some line, possibly indented, starts with - or * and then whitespace
HasListLine(s) ==
    \E i \in 1..Len(s), k \in 1..Len(s) :
        /\ AtLineStart(s, i)
        /\ k >= i
        /\ \A j \in i..(k - 1) : s[j] \in Whitespace
        /\ s[k] \in {"-", "*"}
        /\ k + 1 <= Len(s)
        /\ s[k + 1] \in Whitespace

\* the text without its surrounding whitespace is wrapped in {..} or [..]
JsonWrapped(s) ==
    LET solid == {i \in 1..Len(s) : s[i] \notin Whitespace}
    IN  /\ solid # {}
        /\ LET first == CHOOSE a \in solid : \A b \in solid : a <= b
               last == CHOOSE a \in solid : \A b \in solid : a >= b
           IN  \/ s[first] = "{" /\ s[last] = "}"
               \/ s[first] = "[" /\ s[last] = "]"

\* one of the sub-cases of the format check is satisfied
FormatSubCase(d, out) ==
    \/ Contains(MarkdownLit, d) /\ HasMarkdownFormatting(out)
    \/ Contains(JsonLit, d) /\ JsonWrapped(out)
    \/ (Contains(ListLit, d) \/ Contains(BulletLit, d)) /\ HasListLine(out)

\* the phrase "at least n words"
AtLeastWords(n) == JoinWords(<<AtLeastLit, Decimal(n), WordsLit>>)

\* the numbers n of the phrases "at least n words" of a lower-cased description
RequiredWords(d) == {n \in 0..(MaxMinWords + 10) : Contains(AtLeastWords(n), d)}

\* the rubric description of the scenario of C7
MustIncludeFoo == <<"M","u","s","t"," ","i","n","c","l","u","d","e"," ","\"","f","o","o","\"">>

\* score is min(1, matched / max(1, total)) for the keywords kws; the
\* quantifiers name the keyword list and the count
MatchRatio(score, kws, out) ==
    \A m \in {MatchedCount(kws, out)} :
        score = RatMin(One, Rat(m, Max(1, Len(kws))))

InclusionRule(score, desc, out) ==
    \A kws \in {ExtractKeywords(desc)} : MatchRatio(score, kws, out)

FormatRule(d, out) == IF FormatSubCase(d, out) THEN One ELSE Rat(1, 2)

LengthRule(n, out) ==
    IF WordCount(out) >= n THEN One ELSE Rat(WordCount(out), n)

FallbackRule(score, desc, out) ==
    \A kws \in {ExtractKeywords(desc)} :
        IF kws = <<>> THEN score = Rat(7, 10) ELSE MatchRatio(score, kws, out)

\* C1: every score of _score_rubric and every EvalScore.score of
\* evaluate_output lies in [0, 1], and the aggregate of evaluate_output lies
\* in [0, 1] whenever all rubric weights are positive.
C1_ScoresInUnitInterval ==
    /\ (Returned("_score_rubric") /\ ret.exc = "none") => InUnitInterval(ret.val)
    /\ (Returned("evaluate_output") /\ ret.exc = "none") =>
        /\ \A i \in DOMAIN ret.scores : InUnitInterval(ret.scores[i].score)
        /\ AllWeightsPositive(rubrics) => InUnitInterval(ret.aggregate)

\* two rubric items of positive weight with an aggregate strictly inside (0, 1)
C1_Witness ==
    /\ Returned("evaluate_output")
    /\ Len(rubrics) = 2
    /\ AllWeightsPositive(rubrics)
    /\ Len(ret.scores) = 2
    /\ RatLT(Zero, ret.aggregate)
    /\ RatLT(ret.aggregate, One)

\* C2: _score_rubric consults inclusion, format, minimum length, fallback
\* keywords and default in that order and the first strategy whose trigger
\* matches decides the score alone: an inclusion description is scored by the
\* inclusion rule even if it also holds "format" or "at least N words", and a
\* format description without inclusion trigger by the format rule even if it
\* also holds "at least N words".
C2_FirstMatchingStrategy ==
    Returned("_score_rubric") =>
        LET desc == rubrics[1].description
            d == Lower(desc)
        IN  /\ InclusionTriggered(d) =>
                    ret.exc = "none" /\ InclusionRule(ret.val, desc, output)
            /\ (~InclusionTriggered(d) /\ Contains(FormatLit, d)) =>
                    ret = Ok(FormatRule(d, output))
            /\ (~InclusionTriggered(d) /\ ~Contains(FormatLit, d)) =>
                    /\ \A n \in RequiredWords(d) : ret = Ok(LengthRule(n, output))
                    /\ ~(Contains(AtLeastLit, d) /\ Contains(WordsLit, d)) =>
                            /\ ret.exc = "none"
                            /\ FallbackRule(ret.val, desc, output)

\* an inclusion description that also holds "format" and "at least N words"
\* scores 0, which neither the format rule nor the length rule gives
C2_Witness ==
    /\ Returned("_score_rubric")
    /\ LET d == Lower(rubrics[1].description)
       IN  /\ InclusionTriggered(d)
           /\ Contains(FormatLit, d)
           /\ RequiredWords(d) # {}
           /\ ret = Ok(Zero)
           /\ FormatRule(d, output) = One
           /\ \A n \in RequiredWords(d) : LengthRule(n, output) = One

\* C3: evaluate_output returns one EvalScore per rubric item, in input order,
\* with rubric = the item's name, detail = its description and score =
\* _score_rubric(output, item); for an empty rubric list it returns ([], 0.0).
C3_OneScorePerRubric ==
    Returned("evaluate_output") =>
        /\ ret.exc = "none"
        /\ Len(ret.scores) = Len(rubrics)
        /\ \A i \in DOMAIN rubrics :
            ret.scores[i] = [rubric |-> rubrics[i].name,
                             score |-> ScoreRubric(output, rubrics[i]).val,
                             detail |-> rubrics[i].description]
        /\ rubrics = <<>> => (ret.scores = <<>> /\ ret.aggregate = Zero)

\* two rubric items of different names, one of weight 0, with different scores
C3_Witness ==
    /\ Returned("evaluate_output")
    /\ Len(rubrics) = 2
    /\ Len(ret.scores) = 2
    /\ rubrics[1].weight = Zero
    /\ ret.scores[1].rubric # ret.scores[2].rubric
    /\ ret.scores[1].score # ret.scores[2].score

\* C4: whenever the sum of the rubric weights is positive, the aggregate is
\* sum(score_i * weight_i) / sum(weight_i) over the scores returned.
C4_AggregateIsWeightedMean ==
    (/\ Returned("evaluate_output")
     /\ ret.exc = "none"
     /\ RatLT(Zero, TotalWeight(rubrics, Len(rubrics)))) =>
        /\ Len(ret.scores) = Len(rubrics)
        /\ RatMul(ret.aggregate, TotalWeight(rubrics, Len(rubrics)))
            = WeightedScoreSum(ret.scores, rubrics, Len(rubrics))

\* two items of different positive weights and different scores: the weighted
\* mean differs from the plain mean of the scores
C4_Witness ==
    /\ Returned("evaluate_output")
    /\ Len(rubrics) = 2
    /\ Len(ret.scores) = 2
    /\ AllWeightsPositive(rubrics)
    /\ rubrics[1].weight # rubrics[2].weight
    /\ ret.scores[1].score # ret.scores[2].score
    /\ RatMul(ret.aggregate, Rat(2, 1))
        # RatAdd(ret.scores[1].score, ret.scores[2].score)

\* C5 as stated: if the rubric sequence is empty or the total weight is 0,
\* evaluate_output returns aggregate 0.0 and an empty score sequence.
C5_EmptyScoresOnZeroWeight ==
    (/\ Returned("evaluate_output")
     /\ rubrics = <<>> \/ TotalWeight(rubrics, Len(rubrics)) = Zero) =>
        /\ ret.exc = "none"
        /\ ret.aggregate = Zero
        /\ ret.scores = <<>>

\* C5 amended: if the rubric sequence is empty or the total weight is 0,
\* evaluate_output returns aggregate 0.0 and one score per rubric item, so
\* the score sequence is empty only if the rubric sequence is.
C5_ZeroAggregateOnZeroWeight ==
    (/\ Returned("evaluate_output")
     /\ rubrics = <<>> \/ TotalWeight(rubrics, Len(rubrics)) = Zero) =>
        /\ ret.exc = "none"
        /\ ret.aggregate = Zero
        /\ Len(ret.scores) = Len(rubrics)

\* weights that cancel to 0 over scores whose weighted sum is not 0
C5_Witness ==
    /\ Returned("evaluate_output")
    /\ rubrics # <<>>
    /\ TotalWeight(rubrics, Len(rubrics)) = Zero
    /\ Len(ret.scores) = Len(rubrics)
    /\ WeightedScoreSum(ret.scores, rubrics, Len(rubrics)) # Zero
    /\ ret.aggregate = Zero

InclusionKeywords(desc) ==
    LET quoted == QuotedSubstrings(desc)
    IN  IF quoted # <<>> THEN quoted ELSE ExtractKeywords(desc)

\* C7: for a description with an inclusion trigger the score is
\* min(1, matched / max(1, total)); the keywords are exactly the double-quoted
\* substrings of the description if there are any (in order, no cap), a
\* keyword is matched iff it occurs in the output with case ignored; the
\* rubric Must include "foo" scores 1 on an output containing foo and 0 on any
\* other; an empty keyword set scores 0.
C7_InclusionScore ==
    (Returned("_score_rubric") /\ InclusionTriggered(Lower(rubrics[1].description))) =>
        \A kws \in {InclusionKeywords(rubrics[1].description)} :
            /\ ret.exc = "none"
            /\ MatchRatio(ret.val, kws, output)
            /\ rubrics[1].description = MustIncludeFoo =>
                    ret.val = IF Contains(<<"f","o","o">>, Lower(output))
                              THEN One ELSE Zero
            /\ kws = <<>> => ret.val = Zero

\* more than 5 quoted keywords, some but not all of them in the output
C7_Witness ==
    /\ Returned("_score_rubric")
    /\ InclusionTriggered(Lower(rubrics[1].description))
    /\ Len(QuotedSubstrings(rubrics[1].description)) > MaxKeywords
    /\ RatLT(Zero, ret.val)
    /\ RatLT(ret.val, One)

\* C8 as stated: without a double-quoted substring _extract_keywords returns
\* at most 5 keywords, each a whitespace-delimited word of the description
\* longer than 5 characters that, with edge punctuation stripped and case
\* ignored, is not one of should, include, ensure, provide.
C8_KeywordsAreLongNonStopwords ==
    (Returned("_extract_keywords") /\ QuotedSubstrings(text) = <<>>) =>
        /\ Len(ret.val) <= MaxKeywords
        /\ \A i \in DOMAIN ret.val :
            /\ \E j \in DOMAIN Split(text) : Split(text)[j] = ret.val[i]
            /\ Len(ret.val[i]) > MinKeywordLen
            /\ Lower(StripSet(ret.val[i], EdgePunctuation)) \notin StopWords

\* C9: for a description with "format" and no inclusion trigger the score is
\* 1 when a sub-case is satisfied (markdown and markdown structure, json and
\* a {..} or [..] wrapping, list or bullet and a list line) and 1/2 otherwise,
\* never another value, also when the description has a length trigger or
\* keywords.
C9_FormatScore ==
    (/\ Returned("_score_rubric")
     /\ ~InclusionTriggered(Lower(rubrics[1].description))
     /\ Contains(FormatLit, Lower(rubrics[1].description))) =>
        /\ ret.exc = "none"
        /\ ret.val \in {One, Rat(1, 2)}
        /\ ret.val = One <=> FormatSubCase(Lower(rubrics[1].description), output)

\* a "bullet format" description with "at least 0 words" and keywords in the
\* output scores 1/2 on an output without list line
C9_Witness ==
    /\ Returned("_score_rubric")
    /\ LET d == Lower(rubrics[1].description)
       IN  /\ ~InclusionTriggered(d)
           /\ Contains(FormatLit, d)
           /\ Contains(BulletLit, d)
           /\ 0 \in RequiredWords(d)
           /\ MatchedCount(ExtractKeywords(rubrics[1].description), output) > 0
           /\ ret = Ok(Rat(1, 2))

\* C10: for a description with "at least N words" and neither inclusion nor
\* format trigger the score is 1 if the output has at least N
\* whitespace-delimited tokens and actual / N otherwise, which is never
\* negative and strictly below 1.
C10_LengthScore ==
    (/\ Returned("_score_rubric")
     /\ ~InclusionTriggered(Lower(rubrics[1].description))
     /\ ~Contains(FormatLit, Lower(rubrics[1].description))) =>
        \A n \in RequiredWords(Lower(rubrics[1].description)) :
            IF WordCount(output) >= n
            THEN ret = Ok(One)
            ELSE /\ ret = Ok(Rat(WordCount(output), n))
                 /\ RatLE(Zero, ret.val)
                 /\ RatLT(ret.val, One)

\* "at least 10 words" and an output of 5 words score 1/2
C10_Witness ==
    /\ Returned("_score_rubric")
    /\ ~InclusionTriggered(Lower(rubrics[1].description))
    /\ ~Contains(FormatLit, Lower(rubrics[1].description))
    /\ 10 \in RequiredWords(Lower(rubrics[1].description))
    /\ WordCount(output) = 5
    /\ ret = Ok(Rat(1, 2))

\* calls i and j of the process are calls of f with identical arguments
SameCall(f, i, j) ==
    /\ calls[i].op = f
    /\ calls[j].op = f
    /\ calls[i].args = calls[j].args

\* C11: two calls of generate_training_data with the same seed and
\* otherwise identical arguments return identical sample sequences, whatever
\* calls (seeded or not) the process made in between.
C11_SeededGenerationRepeats ==
    \A i \in DOMAIN calls : \A j \in DOMAIN calls :
        (/\ i < j
         /\ SameCall("generate_training_data", i, j)
         /\ calls[i].args[3] # None) =>
            calls[i].result = calls[j].result

\* a seeded call, a call with another seed or none, and the seeded call again
C11_Witness ==
    /\ Len(calls) = 3
    /\ SameCall("generate_training_data", 1, 3)
    /\ calls[1].args[3] # None
    /\ calls[2].op = "generate_training_data"
    /\ calls[2].args[3] # calls[1].args[3]
    /\ Len(calls[3].result) = 2
    /\ calls[3].result[1] # calls[3].result[2]

\* the action verbs of the triggers, capitalised, in the order of the claim
ActionVerbs ==
    <<<<"C","r","e","a","t","e">>, <<"G","e","n","e","r","a","t","e">>, <<"B","u","i","l","d">>, <<"I","m","p","l","e","m","e","n","t">>, <<"D","e","s","i","g","n">>,
      <<"D","e","v","e","l","o","p">>>>

\* the three default phrases followed by "{Action} using {id}" for each
\* action verb occurring in the description, case ignored
ExpectedTriggers(id, description) ==
    LET occurring == SelectSeq(ActionVerbs,
                        LAMBDA verb : Contains(Lower(verb), Lower(description)))
    IN  <<<<"U","s","e"," ","t","h","e"," ">> \o id \o <<" ","s","k","i","l","l">>, <<"A","p","p","l","y"," ">> \o id, <<"E","x","e","c","u","t","e"," ">> \o id>>
        \o [k \in 1..Len(occurring) |-> occurring[k] \o <<" ","u","s","i","n","g"," ">> \o id]

\* prompt template k (0..3) instantiated with a trigger
PromptTemplate(k, trigger, id) ==
    CASE k = 0 -> trigger \o <<" ","t","o"," ","s","o","l","v","e"," ","t","h","i","s"," ","p","r","o","b","l","e","m",".">>
      [] k = 1 -> <<"P","l","e","a","s","e"," ">> \o Lower(trigger) \o <<" ","f","o","r"," ","t","h","e"," ","f","o","l","l","o","w","i","n","g"," ","t","a","s","k",".">>
      [] k = 2 -> <<"I"," ","n","e","e","d"," ","h","e","l","p"," ","w","i","t","h"," ">> \o id \o <<"."," ">> \o trigger \o <<".">>
      [] k = 3 -> trigger \o <<" ","w","i","t","h"," ","t","h","e"," ","f","o","l","l","o","w","i","n","g"," ","r","e","q","u","i","r","e","m","e","n","t","s",".">>

\* the task clause of a prompt
TaskClause(id, description) ==
    IF description # <<>>
    THEN <<" ","T","a","s","k",":"," ">> \o [k \in 1..Min(100, Len(description)) |-> description[k]]
    ELSE <<" ","T","a","s","k",":"," ","C","o","m","p","l","e","t","e"," ","t","h","e"," ">> \o id \o <<" ","o","p","e","r","a","t","i","o","n",".">>

\* C12: for num_samples >= 0 generate_training_data returns exactly
\* num_samples samples, and the prompt of sample i (0-based) is template
\* i mod 4 instantiated with trigger i mod len(triggers), followed by the task
\* clause: the first 100 characters of a non-empty description, else the
\* generic "Complete the {id} operation" clause.
C12_PromptOfSample ==
    (Returned("generate_training_data") /\ num_samples >= 0) =>
        /\ ret.exc = "none"
        /\ Len(ret.val) = num_samples
        /\ \A triggers \in {ExpectedTriggers(skill.id, skill.description)} :
           \A clause \in {TaskClause(skill.id, skill.description)} :
           \A i \in 0..(num_samples - 1) :
                ret.val[i + 1].prompt =
                    PromptTemplate(i % 4, triggers[(i % Len(triggers)) + 1], skill.id)
                        \o clause

\* a description of more than 100 characters with an action verb in upper
\* case, and enough samples for the templates to come round again
C12_Witness ==
    /\ Returned("generate_training_data")
    /\ num_samples > 4
    /\ Len(ret.val) = num_samples
    /\ ret.val[5].prompt # ret.val[1].prompt
    /\ \E d \in GenDescriptions :
        /\ Len(d) > TaskDetailLength
        /\ ret.val[1].prompt = <<"U","s","e"," ","t","h","e"," ">> \o skill.id
                \o <<" ","s","k","i","l","l"," ","t","o"," ","s","o","l","v","e"," ","t","h","i","s"," ","p","r","o","b","l","e","m","."," ","T","a","s","k",":"," ">>
                \o SubSeq(d, 1, TaskDetailLength)

\* the block of the constraint at 0-based position i, by the rules of C20
ExpectedBlock(constraint, i) ==
    LET c == Lower(constraint)
        format == Contains(<<"f","o","r","m","a","t">>, c)
    IN  IF format /\ Contains(<<"m","a","r","k","d","o","w","n">>, c)
        THEN <<"#","#"," ","F","o","r","m","a","t","t","e","d"," ","O","u","t","p","u","t","\n","-"," ","I","t","e","m"," ","1","\n","-"," ","I","t","e","m"," ","2","\n","-"," ","I","t","e","m"," ","3","\n">>
        ELSE IF format /\ Contains(<<"j","s","o","n">>, c)
        THEN <<Backtick,Backtick,Backtick,"j","s","o","n","\n","{","\"","r","e","s","u","l","t","\"",":"," ","\"","e","x","a","m","p","l","e","\"","}","\n",Backtick,Backtick,Backtick,"\n">>
        ELSE IF format /\ Contains(<<"l","i","s","t">>, c)
        THEN <<"-"," ","P","o","i","n","t"," ","A","\n","-"," ","P","o","i","n","t"," ","B","\n","-"," ","P","o","i","n","t"," ","C","\n">>
        ELSE IF Contains(<<"i","n","c","l","u","d","e">>, c) /\ ~format
        THEN <<"#","#"," ","S","e","c","t","i","o","n"," ">> \o Decimal(i + 1) \o <<"\n","T","h","i","s"," ","s","e","c","t","i","o","n"," ","a","d","d","r","e","s","s","e","s",":"," ">>
                \o constraint \o <<"\n">>
        ELSE <<"#","#"," ","C","o","n","s","t","r","a","i","n","t"," ">> \o Decimal(i + 1) \o <<"\n","A","d","d","r","e","s","s","i","n","g",":"," ">>
                \o [k \in 1..Min(50, Len(constraint)) |-> constraint[k]]
                \o <<".",".",".","\n">>

\* the blocks of the constraints from 0-based position i on
RECURSIVE ExpectedBlocks(_, _)
ExpectedBlocks(constraints, i) ==
    IF i >= Len(constraints) THEN <<>>
    ELSE ExpectedBlock(constraints[i + 1], i) \o ExpectedBlocks(constraints, i + 1)

\* a line of the text starts with '#'
HasHeaderLine(s) ==
    \E k \in 1..Len(s) : s[k] = "#" /\ (k = 1 \/ s[k - 1] = "\n")

\* C20 as stated: every generated response is the header line
\* "# {id} Response", then for each constraint in order exactly one block
\* chosen by the substring rules (anything that is not a markdown, json or
\* list format constraint and not an include constraint gets the generic
\* numbered section), then the summary line naming the id and the number of
\* constraints; so it contains the id and a '#'-prefixed header line.
C20_ResponseBlocks ==
    Returned("generate_training_data") =>
        \A constraints \in {ExtractConstraints(skill)} :
        \A expected \in {<<"#"," ">> \o skill.id \o <<" ","R","e","s","p","o","n","s","e","\n">>
                          \o ExpectedBlocks(constraints, 0)
                          \o <<"\n","#","#"," ","S","u","m","m","a","r","y","\n","T","h","e"," ">> \o skill.id
                          \o <<" ","s","k","i","l","l"," ","h","a","s"," ","b","e","e","n"," ","s","u","c","c","e","s","s","f","u","l","l","y"," ","a","p","p","l","i","e","d"," ","w","i","t","h"," ">>
                          \o Decimal(Len(constraints))
                          \o <<" ","c","o","n","s","t","r","a","i","n","t","(","s",")"," ","s","a","t","i","s","f","i","e","d",".","\n">>} :
        \A i \in DOMAIN ret.val :
            /\ ret.val[i].response = expected
            /\ Contains(skill.id, ret.val[i].response)
            /\ HasHeaderLine(ret.val[i].response)

\* the line starts with h '#' characters, then w whitespace characters, then
\* has at least one more character
HeadingShape(line, h, w) ==
    /\ Len(line) > h + w
    /\ \A k \in 1..h : line[k] = "#"
    /\ \A k \in (h + 1)..(h + w) : line[k] \in Whitespace

\* a heading line: 1-3 '#' characters followed by whitespace and text
IsHeadingLine(line) ==
    \E h \in 1..3 : \E w \in 1..Len(line) : HeadingShape(line, h, w)

\* the text of a heading line: what follows its '#' characters, trimmed
HeadingText(line) == Strip(LStripSet(line, {"#"}))

\* the positions of the heading lines
HeadingLines(lines) == {i \in DOMAIN lines : IsHeadingLine(lines[i])}

\* the position of the last heading line with this text
LastHeading(lines, heading) ==
    CHOOSE i \in HeadingLines(lines) :
        /\ HeadingText(lines[i]) = heading
        /\ \A j \in HeadingLines(lines) :
                HeadingText(lines[j]) = heading => j <= i

\* the lines after heading line i up to the next heading line, joined by "\n"
SectionBody(lines, i) ==
    LET later == {j \in HeadingLines(lines) : j > i} \cup {Len(lines) + 1}
        next == CHOOSE j \in later : \A k \in later : j <= k
    IN  Join(<<"\n">>, SubSeq(lines, i + 1, next - 1))

IsBlank(line) == \A k \in DOMAIN line : line[k] \in Whitespace

\* the description of the lines, given the positions of the title lines and
\* of the stopping lines: skip up to and including the first title line, skip
\* the blank lines that follow, then collect the lines, trimmed and joined by
\* single spaces, up to the first line that is blank or a stopping line
DescriptionBy(lines, titles, stops) ==
    LET first == CHOOSE i \in titles : \A j \in titles : i <= j
        solid == {j \in DOMAIN lines : j > first /\ ~IsBlank(lines[j])}
        start == CHOOSE j \in solid : \A k \in solid : j <= k
        ends == {j \in DOMAIN lines :
                    j >= start /\ (IsBlank(lines[j]) \/ j \in stops)}
                \cup {Len(lines) + 1}
        stop == CHOOSE j \in ends : \A k \in ends : j <= k
    IN  IF titles = {} THEN <<>>
        ELSE IF solid = {} THEN <<>>
        ELSE Join(<<" ">>, [k \in 1..(stop - start) |-> Strip(lines[start + k - 1])])

\* a line starting with exactly one '#' followed by whitespace
HashThenWhitespace(line) ==
    Len(line) >= 2 /\ line[1] = "#" /\ line[2] \in Whitespace

\* a line starting with '#' followed by a space
HashThenSpace(line) == Len(line) >= 2 /\ line[1] = "#" /\ line[2] = " "

\* a line starting with '#'
StartsWithHash(line) == Len(line) >= 1 /\ line[1] = "#"

\* the positions of the lines starting with one '#' followed by whitespace
HeadingOneAt(lines) == {i \in DOMAIN lines : HashThenWhitespace(lines[i])}

\* the positions of the lines starting with '#' followed by a space
TitleAt(lines) == {i \in DOMAIN lines : HashThenSpace(lines[i])}

\* the positions of the lines starting with '#'
HashAt(lines) == {i \in DOMAIN lines : StartsWithHash(lines[i])}

\* C14 as stated: _extract_description skips every line up to and including
\* the first heading line (exactly one '#' followed by whitespace), collects
\* the following non-blank lines, trimmed and joined by single spaces,
\* skipping the blank lines before any collected line, and stops only at the
\* first blank line after a collected line or at another such heading line;
\* the result is empty if the document is empty or has no such heading line.
C14_DescriptionAfterHeading ==
    Returned("_extract_description") =>
        /\ ret.exc = "none"
        /\ ret.val = DescriptionBy(SplitLines(content),
                                   HeadingOneAt(SplitLines(content)),
                                   HeadingOneAt(SplitLines(content)))

\* C14 amended: the document is trimmed first; the title line is the first
\* line starting with '#' followed by a space (not any whitespace); the
\* collection stops at the first blank line after a collected line or at any
\* line starting with '#', a heading of any level included; no title line or
\* an empty document gives the empty string.
C14_DescriptionAfterTitle ==
    Returned("_extract_description") =>
        /\ ret.exc = "none"
        /\ ret.val = DescriptionBy(SplitLines(Strip(content)),
                                   TitleAt(SplitLines(Strip(content))),
                                   HashAt(SplitLines(Strip(content))))

\* blank lines before the title and after it, two collected lines, a second
\* paragraph and a section left out
C14_Witness ==
    /\ Returned("_extract_description")
    /\ Contains(<<"N","e","x","t"," ","p","a","r","a","g","r","a","p","h","\n","#","#"," ","C","o","n","s","t","r","a","i","n","t","s">>, content)
    /\ ret.val = <<"F","i","r","s","t"," ","l","i","n","e"," ","s","e","c","o","n","d"," ","l","i","n","e">>

\* the heading holds the word, case ignored
HeadingHas(heading, word) == Contains(Lower(word), Lower(heading))

\* the category C15 gives a heading: "" if the section contributes nothing
ExpectedCategory(heading) ==
    IF HeadingHas(heading, <<"c","o","n","s","t","r","a","i","n","t">>) THEN "behavioral"
    ELSE IF HeadingHas(heading, <<"o","u","t","p","u","t">>) /\ HeadingHas(heading, <<"f","o","r","m","a","t">>)
    THEN "structural"
    ELSE ""

\* the heading of a rubric item: its name without the "_{index}" suffix
RubricHeading(name) ==
    LET marks == {k \in DOMAIN name : name[k] = "_"}
        last == CHOOSE k \in marks : \A m \in marks : m <= k
    IN  SubSeq(name, 1, last - 1)

\* the list items of a section body, by the shape of its lines: leading
\* whitespace, '-' or '*', whitespace, then at least one more character
IsListItemLine(line) ==
    \E lead \in 0..Len(line) : \E w \in 1..Len(line) :
        /\ Len(line) > lead + 1 + w
        /\ \A k \in 1..lead : line[k] \in Whitespace
        /\ line[lead + 1] \in {"-", "*"}
        /\ \A k \in (lead + 2)..(lead + 1 + w) : line[k] \in Whitespace

\* the number of list items of a section body
ItemCount(body) ==
    Cardinality({i \in DOMAIN SplitLines(body) : IsListItemLine(SplitLines(body)[i])})

\* C15: extract_rubrics classifies each section by case-insensitive
\* containment on its heading: "constraint" gives behavioral rubrics (even
\* with "output" and "format" in the heading), else "output" and "format"
\* together give structural rubrics, and any other section contributes
\* nothing; so a document with no heading or with no such section yields no
\* rubric.
C15_SectionCategory ==
    Returned("extract_rubrics") =>
        \A sections \in {SplitSections(content)} :
            /\ ret.exc = "none"
            /\ \A k \in DOMAIN sections :
                LET of_section == {i \in DOMAIN ret.val :
                                    RubricHeading(ret.val[i].name) = sections[k][1]}
                IN  /\ \A i \in of_section :
                            ret.val[i].category = ExpectedCategory(sections[k][1])
                    /\ Cardinality(of_section) =
                            IF ExpectedCategory(sections[k][1]) = "" THEN 0
                            ELSE ItemCount(sections[k][2])
            /\ \A i \in DOMAIN ret.val :
                \E k \in DOMAIN sections : RubricHeading(ret.val[i].name) = sections[k][1]
            /\ (\A k \in DOMAIN sections : ExpectedCategory(sections[k][1]) = "") =>
                    ret.val = <<>>

\* a heading with constraint, output and format gives behavioral rubrics, a
\* heading with output and format structural ones, and a section with list
\* items under another heading none
C15_Witness ==
    /\ Returned("extract_rubrics")
    /\ \E i \in DOMAIN ret.val :
        /\ ret.val[i].category = "behavioral"
        /\ HeadingHas(RubricHeading(ret.val[i].name), <<"o","u","t","p","u","t">>)
        /\ HeadingHas(RubricHeading(ret.val[i].name), <<"f","o","r","m","a","t">>)
    /\ \E i \in DOMAIN ret.val : ret.val[i].category = "structural"
    /\ \E k \in DOMAIN SplitSections(content) :
        /\ ExpectedCategory(SplitSections(content)[k][1]) = ""
        /\ ItemCount(SplitSections(content)[k][2]) > 0

\* the text of a list item line: what follows its marker, trimmed
ItemText(line) == Strip(Tail(LStripSet(line, Whitespace)))

\* the texts of the list items of a section body, in order
ItemTexts(body) ==
    LET lines == SplitLines(body)
        item_lines == SelectSeq(lines, IsListItemLine)
    IN  [i \in DOMAIN item_lines |-> ItemText(item_lines[i])]

\* heading line i is the first one with its text
IsFirstWithText(lines, i) ==
    /\ i \in HeadingLines(lines)
    /\ \A j \in HeadingLines(lines) :
            j < i => HeadingText(lines[j]) # HeadingText(lines[i])

\* the rubric items of one section
ExpectedSectionRubrics(heading, body) ==
    LET items == ItemTexts(body)
    IN  IF ExpectedCategory(heading) = "" THEN <<>>
        ELSE [i \in DOMAIN items |->
                [name |-> heading \o <<"_">> \o Decimal(i - 1),
                 description |-> items[i],
                 weight |-> Rat(1, 1),
                 category |-> ExpectedCategory(heading)]]

\* the rubric items of the sections discovered from line i on: a section is
\* discovered at the first heading line with its text and has the body the
\* mapping keeps for that text
RECURSIVE ExpectedRubricsFrom(_, _)
ExpectedRubricsFrom(lines, i) ==
    IF i > Len(lines) THEN <<>>
    ELSE (IF IsFirstWithText(lines, i)
          THEN ExpectedSectionRubrics(
                    HeadingText(lines[i]),
                    SectionBody(lines, LastHeading(lines, HeadingText(lines[i]))))
          ELSE <<>>)
         \o ExpectedRubricsFrom(lines, i + 1)

\* C16: each list item of a classified section of the mapping becomes one
\* RubricItem with name "{heading}_{index}" (index 0-based within its
\* section), description the item text and weight 1.0; the items come in
\* section discovery order, then in item order; the names of the returned
\* rubric items are pairwise distinct.
C16_RubricItemsInOrder ==
    Returned("extract_rubrics") =>
        /\ ret.exc = "none"
        /\ ret.val = ExpectedRubricsFrom(SplitLines(content), 1)
        /\ \A i \in DOMAIN ret.val : \A j \in DOMAIN ret.val :
                ret.val[i].name = ret.val[j].name => i = j

\* three classified sections, the first one with a repeated heading, the
\* last one with two items
C16_Witness ==
    /\ Returned("extract_rubrics")
    /\ Len(ret.val) = 4
    /\ ret.val[1].name = <<"C","o","n","s","t","r","a","i","n","t","s","_","0">>
    /\ ret.val[1].description = <<"e">>
    /\ ret.val[2].name = <<"O","u","t","p","u","t"," ","F","o","r","m","a","t","_","0">>
    /\ ret.val[3].name = <<"c","o","n","s","t","r","a","i","n","t","s","_","0">>
    /\ ret.val[4].name = <<"c","o","n","s","t","r","a","i","n","t","s","_","1">>
    /\ ret.val[4].description = <<"d">>

AllAttemptsFailed == \A i \in DOMAIN responses : responses[i] \in HTTPErrors

\* C18 as stated: _request_with_retry with max_retries = n stops at the first
\* successful attempt: after k failures it has issued exactly k+1 requests
\* and slept exactly k times.  If every attempt fails with an httpx.HTTPError
\* it issues exactly n requests, sleeps 2^k seconds after failed attempt k for
\* k = 0..n-2, does not sleep after the last attempt, and raises the last
\* HTTP error to the caller.
C18_RetryWithBackoff ==
    Returned("_request_with_retry") =>
        /\ ret.exc = "none" =>
            /\ responses # <<>>
            /\ responses[Len(responses)] = "json"
            /\ \A i \in 1..(Len(responses) - 1) : responses[i] \in HTTPErrors
            /\ Len(requests) = Len(responses)
            /\ Len(sleeps) = Len(responses) - 1
        /\ \A k \in DOMAIN sleeps : sleeps[k] = 2 ^ (k - 1)
        /\ AllAttemptsFailed =>
            /\ Len(requests) = max_retries
            /\ Len(sleeps) = IF max_retries >= 2 THEN max_retries - 1 ELSE 0
            /\ ret.exc \in HTTPErrors
            /\ responses # <<>> => ret.exc = responses[Len(responses)]


\* the positions of the requests made to this endpoint
RequestsTo(e) == {i \in DOMAIN requests : requests[i].endpoint = e}

\* the request to /health was answered with a JSON body
HealthSucceeded ==
    \E i \in RequestsTo("/health") : responses[i] = "json"

\* the request to /health failed: every one of its max_retries >= 1 attempts
\* met an HTTP error
HealthFailed ==
    /\ max_retries >= 1
    /\ Cardinality(RequestsTo("/health")) = max_retries
    /\ \A i \in RequestsTo("/health") : responses[i] \in HTTPErrors

\* the completion request was answered with a JSON body
CompletionSucceeded ==
    \E i \in RequestsTo("/v1/completions") : responses[i] = "json"

PromptsOf(a, b) == {ret.val[k].prompt : k \in a..b}

\* C21: in the samples generate_training_data returns, every run of at
\* least 4 consecutive samples holds at least 2 distinct prompts.
C21_PromptVariety ==
    Returned("generate_training_data") =>
        \A a \in DOMAIN ret.val : \A b \in DOMAIN ret.val :
            b >= a + 3 => Cardinality(PromptsOf(a, b)) >= 2

\* six samples of a skill with three triggers: a run of four that does not
\* start at the first sample
C21_Witness ==
    /\ Returned("generate_training_data")
    /\ Len(ret.val) = MaxSamples
    /\ skill.description = <<>>
    /\ Cardinality(PromptsOf(3, 6)) >= 2

\* the descriptions of the rubric items, one per item, in the rubric order
DescriptionsOf(rubric_list) ==
    [k \in DOMAIN rubric_list |-> rubric_list[k].description]

LengthStrategyReached ==
    /\ Returned("_score_rubric")
    /\ ~InclusionTriggered(Lower(rubrics[1].description))
    /\ ~Contains(FormatLit, Lower(rubrics[1].description))
    /\ Contains(AtLeastLit, Lower(rubrics[1].description))
    /\ Contains(WordsLit, Lower(rubrics[1].description))
    /\ MinWordsSearch(Lower(rubrics[1].description)).found

\* min_words: the number the strategy parses from the description
ParsedMinWords == IntOf(MinWordsSearch(Lower(rubrics[1].description)).group1)

\* C24 as stated: in the minimum-length strategy the required word count
\* parsed from the description is always >= 1.
C24_RequiredAtLeastOne ==
    LengthStrategyReached => ParsedMinWords >= 1

\* C24 amended: the required word count parsed from the description is
\* >= 0; it is 0 for "0 words", and then the score is 1 for every output, no
\* division being made; whenever the score is below 1 the required count is
\* >= 1 and the score is word_count / required.
C24_RequiredAtLeastZero ==
    LengthStrategyReached =>
        /\ ParsedMinWords >= 0
        /\ ParsedMinWords = 0 => ret = Ok(One)
        /\ ret # Ok(One) =>
            /\ ParsedMinWords >= 1
            /\ ret = Ok(Rat(WordCount(output), ParsedMinWords))

\* "at least 0 words" scores 1 on an output without words
C24_Witness ==
    /\ LengthStrategyReached
    /\ ParsedMinWords = 0
    /\ WordCount(output) = 0
    /\ ret = Ok(One)

\* _score_rubric has returned from a call in which no earlier strategy
\* triggers: no inclusion phrase, no "format", and not both "at least" and
\* "words" with an integer directly before "words"
FallbackReached ==
    /\ Returned("_score_rubric")
    /\ ~InclusionTriggered(Lower(rubrics[1].description))
    /\ ~Contains(FormatLit, Lower(rubrics[1].description))
    /\ ~(/\ Contains(AtLeastLit, Lower(rubrics[1].description))
         /\ Contains(WordsLit, Lower(rubrics[1].description))
         /\ MinWordsSearch(Lower(rubrics[1].description)).found)

\* "at least" and "words" without an integer directly before "words"
LengthWithoutNumber ==
    /\ Contains(AtLeastLit, Lower(rubrics[1].description))
    /\ Contains(WordsLit, Lower(rubrics[1].description))
    /\ ~MinWordsSearch(Lower(rubrics[1].description)).found

\* C25 as stated: when no earlier strategy triggers, a description with
\* "at least" and "words" but no integer before "words" included,
\* _score_rubric uses the fallback: with a non-empty extracted keyword list
\* the score is min(1.0, matched / total), and the score is exactly 0.7 if and
\* only if the keyword list is empty.
C25_FallbackScore ==
    FallbackReached =>
        \A kws \in {ExtractKeywords(rubrics[1].description)} :
            /\ ret.exc = "none"
            /\ kws # <<>> => MatchRatio(ret.val, kws, output)
            /\ ret.val = Rat(7, 10) <=> kws = <<>>

\* C25 amended: the score is 0.7 if the keyword list is empty, and
\* min(1.0, matched / total) otherwise, which is 0.7 as well when seven in
\* ten of the keywords are matched.
C25_FallbackScoreOrRatio ==
    FallbackReached =>
        \A kws \in {ExtractKeywords(rubrics[1].description)} :
            /\ ret.exc = "none"
            /\ kws # <<>> => MatchRatio(ret.val, kws, output)
            /\ kws = <<>> => ret.val = Rat(7, 10)
            /\ (kws # <<>> /\ ret.val = Rat(7, 10)) =>
                    10 * MatchedCount(kws, output) = 7 * Len(kws)

\* "at least" and "words" without a number: ten keywords, seven matched
C25_Witness ==
    /\ FallbackReached
    /\ LengthWithoutNumber
    /\ Len(ExtractKeywords(rubrics[1].description)) = 10
    /\ MatchedCount(ExtractKeywords(rubrics[1].description), output) = 7
    /\ ret = Ok(Rat(7, 10))

\* C26: every RubricItem returned by extract_rubrics, for any document, has
\* a non-empty name, a non-empty description and weight 1.0 (a list line
\* whose marker is followed only by whitespace produces no rubric).
C26_RubricItemsNonEmpty ==
    Returned("extract_rubrics") =>
        /\ ret.exc = "none"
        /\ \A i \in DOMAIN ret.val :
                /\ ret.val[i].name # <<>>
                /\ ret.val[i].description # <<>>
                /\ ret.val[i].weight = One

\* thread t has returned from generate_training_data
ThreadReturned(t) == pc = "threads" /\ threads[t].pc = "return"

\* both threads passed a seed that is not None
ExplicitSeeds == \A t \in Threads : threads[t].seed # None

PoppedIds ==
    [k \in 1..Cardinality({i \in DOMAIN pops : pops[i].job_id # None}) |->
        pops[CHOOSE i \in DOMAIN pops :
                /\ pops[i].job_id # None
                /\ Cardinality({j \in 1..i : pops[j].job_id # None}) = k].job_id[1]]

\* the ids get_next_job has returned, in the order of the returns
ReturnedIds ==
    [k \in 1..Cardinality({i \in DOMAIN returns : returns[i] # None}) |->
        returns[CHOOSE i \in DOMAIN returns :
                /\ returns[i] # None
                /\ Cardinality({j \in 1..i : returns[j] # None}) = k][1].job_id]

\* the place of a pushed id in the order of the pushes
PushIndex(job_id) == CHOOSE k \in DOMAIN pushed : pushed[k] = job_id

C30_PendingStatusAndQueue ==
    pc = "queue" =>
        /\ \A key \in DOMAIN hashes :
                hashes[key]["status"] = "pending" =>
                    \E k \in DOMAIN pending : pending[k] = hashes[key]["job_id"]
        /\ \A k \in DOMAIN PoppedIds :
                /\ hashes[JobKey(PoppedIds[k])]["status"] # "pending"
                /\ \A p \in DOMAIN procs :
                        (procs[p].op = "get_status" /\ procs[p].job_id = PoppedIds[k]
                         /\ procs[p].ret # None)
                            => procs[p].ret[1]["status"] # "pending"

\* the ids of the jobs whose submit_job has returned
SubmittedIds ==
    {job_id \in Uuids :
        /\ JobKey(job_id) \in DOMAIN hashes
        /\ \A p \in DOMAIN procs :
                ~(procs[p].op = "submit_job" /\ procs[p].pc # "idle"
                  /\ procs[p].job_id = job_id)}

\* the ids of the jobs submitted for a skill
SubmittedFor(skill_id) ==
    {job_id \in SubmittedIds : hashes[JobKey(job_id)]["skill_id"] = skill_id}

\* jobs holds limit of the jobs of ids, or all of them if they are fewer,
\* each one once
JobsUpTo(jobs, ids, limit) ==
    /\ Len(jobs) = IF Cardinality(ids) < limit THEN Cardinality(ids) ELSE limit
    /\ \A k \in DOMAIN jobs : jobs[k]["job_id"] \in ids
    /\ \A i, j \in DOMAIN jobs : jobs[i]["job_id"] = jobs[j]["job_id"] => i = j

\* C27: after any sequence of submit_job calls, list_jobs() with no skill_id
\* and no status returns every submitted job (up to limit), and
\* list_jobs(skill_id=s) returns exactly the jobs submitted for skill s (up
\* to limit).
C27_ListJobs ==
    \A p \in DOMAIN procs :
        (/\ pc = "queue"
         /\ procs[p].op = "list_jobs"
         /\ procs[p].pc = "idle"
         /\ procs[p].status = None) =>
            IF procs[p].skill_id = None
            THEN JobsUpTo(procs[p].ret, SubmittedIds, procs[p].limit)
            ELSE JobsUpTo(procs[p].ret, SubmittedFor(procs[p].skill_id[1]),
                          procs[p].limit)

====
